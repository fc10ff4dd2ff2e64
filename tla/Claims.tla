--------------------------------- MODULE Claims ---------------------------------
(***************************************************************************)
(* What a record may claim of itself: a research contract on its ladder    *)
(* (runner/pattern_contract.py), a market data source on its own           *)
(* (runner/data_sources.py), and the decisions of the two repositories     *)
(* (runner/cross_repository.py).  People write the records by hand, a field*)
(* at a time and in any order, and each revision is judged by itself.      *)
(*                                                                         *)
(* A rung is its position, the lowest being 1; Missing stands for an axis  *)
(* that is not there and Invented for a word that is no rung of it.        *)
(***************************************************************************)
EXTENDS Naturals, Sequences, SequencesExt, Verdicts

CONSTANTS
  Contracts,   \* the contracts people start from
  Sources,     \* the source records they start from
  Candidates,  \* the candidate vendors they may enter
  Texts,       \* what a text field may hold: "", "text", or "null" for JSON's
  MaxRevisions

AXES == <<"source", "rules", "implementation", "no_leakage", "stats", "performance">>
RUNGS == [source |-> 3, rules |-> 3, implementation |-> 3, no_leakage |-> 2,
          stats |-> 2, performance |-> 2]
Missing == 0
Invented == 9
STATES ==
  <<"NOT_IN_MAP", "MAPPED_UNVERIFIED", "VERIFIED_TERMS", "LICENSED", "CONNECTED">>
SWING_DEFINITION == "swing_definition"
SWING_PARAMETERS == "swing_parameters"
Terms == {"HH", "LH", SWING_DEFINITION, SWING_PARAMETERS, "entry"}
(* A term's value: its definition, the marker, or "blank" for anything else*)
(* that is no definition ("", null, a number); a glossary that is no object*)
(* has every term absent.                                                  *)
Meanings == {"absent", "UNDEFINED", "text", "blank"}
Glossary == [Terms -> Meanings]

ContractRecord ==
  [live: BOOLEAN, status: [DOMAIN RUNGS -> Nat], used: SUBSET {"HH", "LH"}, terms: Glossary]
CandidateRecord ==
  [is_object: BOOLEAN, has_verification: BOOLEAN, question: Texts, url: Texts,
   terms_verified: BOOLEAN, verified_how: Texts]
SourceRecord ==
  [state: Range(STATES) \cup {"AVAILABLE"}, artifact: Texts, commit: Texts,
   candidates: Seq(CandidateRecord), document: Texts, document_exists: BOOLEAN]

ASSUME ClaimsAssumption ==
  /\ Contracts \subseteq ContractRecord /\ Contracts # {}
  /\ Sources \subseteq SourceRecord /\ Sources # {}
  /\ Candidates \subseteq CandidateRecord
  /\ Texts \subseteq {"", "text", "null"}
  /\ MaxRevisions \in Nat

VARIABLES
  contract,   \* [live, status, used, terms]: the structure uses the terms in used
  source,     \* [state, artifact, commit, candidates, document, document_exists]
  decided,    \* what each repository has said: a decision, or anything else
  revisions

claims_vars == <<contract, source, decided, revisions>>

-----------------------------------------------------------------------------
(* The ladder of a research contract                                       *)

(* Anything but the marker counts as a definition; an absent term reads as *)
(* the marker.                                                             *)
Defined(meaning) == meaning \notin {"absent", "UNDEFINED"}

(* The terms the structure uses, the root they rest on, and the root's     *)
(* parameters once the root is defined.                                    *)
(* Mutant: the parameters are never asked for.                             *)
required_terms_NoParameters(c) ==
  IF c.used = {} THEN {} ELSE c.used \cup {SWING_DEFINITION}

required_terms(c) ==
  IF c.used = {} THEN {}
  ELSE c.used \cup {SWING_DEFINITION}
         \cup (IF Defined(c.terms[SWING_DEFINITION]) THEN {SWING_PARAMETERS} ELSE {})

(* What is needed and not defined, and what is said to be undefined.       *)
undefined_terms(c) ==
  {t \in required_terms(c) : ~Defined(c.terms[t])}
    \cup {t \in DOMAIN c.terms : c.terms[t] = "UNDEFINED"}

LiveErrors(c) == IF c.live THEN {<<"live_trading">>} ELSE {}

AxisErrors(c) ==
  {<<"axis", a>> : a \in {b \in DOMAIN RUNGS : c.status[b] \notin 1 .. RUNGS[b]}}

(* An axis above its lowest rung while an earlier one is below its top.    *)
LadderErrors(c) ==
  LET rises(i) == c.status[AXES[i]] # 1
      lacks(i) == c.status[AXES[i]] # RUNGS[AXES[i]]
  IN {<<"ladder", AXES[ij[1]], AXES[ij[2]]>> : ij \in
        {p \in (DOMAIN AXES) \X (DOMAIN AXES) : p[2] < p[1] /\ rises(p[1]) /\ lacks(p[2])}}

RulesErrors(c) ==
  IF undefined_terms(c) # {} /\ c.status.rules # 1 THEN {<<"rules">>} ELSE {}

(* The errors of the last two kinds are looked for in a status that has    *)
(* none of the first two.                                                  *)
ladder_errors(c) ==
  LET first == LiveErrors(c) \cup AxisErrors(c)
  IN IF first # {} THEN first ELSE LadderErrors(c) \cup RulesErrors(c)

-----------------------------------------------------------------------------
(* The state of a data source                                              *)

(* str(field).strip() is not empty; of JSON's null it is "None".           *)
Filled(text) == text # ""

ConnectionErrors(s) ==
  {f \in {"artifact", "commit"} : s.state = "CONNECTED" /\ ~Filled(s[f])}

(* What one candidate lacks; of one that is no object, or has no           *)
(* verification, nothing else is asked.                                    *)
CandidateErrors(c) ==
  IF ~c.is_object THEN {"object"}
  ELSE IF ~c.has_verification THEN {"verification"}
  ELSE {f \in {"question", "url"} : ~Filled(c[f])}
         \cup (IF c.terms_verified /\ ~Filled(c.verified_how) THEN {"verified_how"} ELSE {})

DocumentErrors(s) ==
  IF Filled(s.document) /\ s.document_exists THEN {} ELSE {"map_document"}

state_errors(s) ==
  IF s.state \notin Range(STATES) THEN {"connection_state"}
  ELSE ConnectionErrors(s) \cup DocumentErrors(s)
         \cup UNION {CandidateErrors(s.candidates[i]) : i \in DOMAIN s.candidates}

open_founder_tasks(s) ==
  {i \in DOMAIN s.candidates :
     s.candidates[i].is_object /\ ~s.candidates[i].terms_verified}

may_run_detector(s) == s.state = "CONNECTED" /\ state_errors(s) = {}

-----------------------------------------------------------------------------
(* The decisions of two repositories, of which neither wins                *)

Decision == {"ALLOW", "DENY"}

(* ours is theirs is ALLOW allows.                                         *)
resolve_cross_repository(said) ==
  LET missing == {r \in DOMAIN said : said[r] \notin Decision}
  IN [decision |-> IF missing = {} /\ Range(said) = {"ALLOW"} THEN "ALLOW" ELSE "DENY",
      disputed |-> missing = {} /\ Range(said) = Decision,
      missing  |-> missing]

-----------------------------------------------------------------------------
(* A revision changes one field of one record, to anything a hand can type.*)
ReviseContract ==
  /\ \/ contract' = [contract EXCEPT !.live = ~@]
     \/ \E a \in DOMAIN RUNGS : \E r \in {Missing, Invented} \cup 1 .. RUNGS[a] :
          contract' = [contract EXCEPT !.status[a] = r]
     \/ \E t \in Terms : \E v \in Meanings :
          contract' = [contract EXCEPT !.terms[t] = v]
     \/ \E used \in SUBSET {"HH", "LH"} : contract' = [contract EXCEPT !.used = used]
  /\ UNCHANGED <<source, decided>>

ReviseSource ==
  /\ \/ \E st \in Range(STATES) \cup {"AVAILABLE"} : source' = [source EXCEPT !.state = st]
     \/ \E f \in {"artifact", "commit", "document"} : \E x \in Texts :
          source' = [source EXCEPT ![f] = x]
     \/ source' = [source EXCEPT !.document_exists = ~@]
     \/ \E c \in Candidates :
          \/ source' = [source EXCEPT !.candidates = Append(@, c)]
          \/ \E i \in DOMAIN source.candidates : source' = [source EXCEPT !.candidates[i] = c]
  /\ UNCHANGED <<contract, decided>>

(* Either repository says something: a decision, a verdict, or nothing.    *)
Speak ==
  /\ \E r \in DOMAIN decided : \E x \in Decision \cup {"PASS", "none"} :
       decided' = [decided EXCEPT ![r] = x]
  /\ UNCHANGED <<contract, source>>

ClaimsInit ==
  /\ contract \in Contracts
  /\ source \in Sources
  /\ decided = [ours |-> "none", theirs |-> "none"]
  /\ revisions = 0

ClaimsNext ==
  /\ revisions < MaxRevisions
  /\ revisions' = revisions + 1
  /\ ReviseContract \/ ReviseSource \/ Speak

ClaimsSpec == ClaimsInit /\ [][ClaimsNext]_claims_vars

-----------------------------------------------------------------------------
(* A contract without errors stands on a staircase: up to some axis every  *)
(* earlier one is at its top, and after it every one is at its floor.  Its *)
(* rules leave the floor only when no term is marked UNDEFINED and none    *)
(* they rest on, the parameters included, is left out.                     *)
ContractIsEarned ==
  ladder_errors(contract) = {} <=>
    /\ ~contract.live
    /\ \A a \in DOMAIN RUNGS : contract.status[a] \in 1 .. RUNGS[a]
    /\ \E k \in DOMAIN AXES : \A i \in DOMAIN AXES :
         /\ i < k => contract.status[AXES[i]] = RUNGS[AXES[i]]
         /\ i > k => contract.status[AXES[i]] = 1
    /\ contract.status.rules > 1 =>
         /\ \A t \in Terms : contract.terms[t] # "UNDEFINED"
         /\ contract.used # {} =>
              \A t \in contract.used \cup {SWING_DEFINITION, SWING_PARAMETERS} :
                contract.terms[t] # "absent"

(* A detector runs on a source only when it is connected, a named artifact *)
(* and a commit prove it, and everything else in the record is in order;   *)
(* and when nothing is left to find out, somebody found it out.            *)
SourceIsEarned ==
  /\ may_run_detector(source) =>
       /\ source.state = "CONNECTED"
       /\ source.artifact = "text" /\ source.commit = "text"
       /\ source.document = "text" /\ source.document_exists
  /\ (state_errors(source) = {} /\ open_founder_tasks(source) = {}) =>
       \A c \in Range(source.candidates) :
         c.terms_verified /\ c.verified_how = "text" /\ c.question = "text"

(* Permission of both repositories, and of both only, is permission; two   *)
(* decisions that differ are a dispute, and silence is none.               *)
NeitherWins ==
  LET r == resolve_cross_repository(decided)
  IN /\ r.decision = "ALLOW" <=> \A side \in DOMAIN decided : decided[side] = "ALLOW"
     /\ r.disputed <=> Decision = Range(decided)

(* "Every way this contract claims more than it has earned"                *)
(* (pattern_contract.py:144, data_sources.py:68): whatever is revised, in  *)
(* whatever order, a contract is free of errors exactly when it stands on  *)
(* its ladder with nothing it rests on missing or marked, a source lets    *)
(* something run only when its proof is filled in, and two repositories    *)
(* allow only together.                                                    *)
ClaimsAreEarned ==
  ContractIsEarned /\ SourceIsEarned /\ NeitherWins

(* "Rules cannot be defined while a term the structure uses is not"        *)
(* (pattern_contract.py:175).  Not kept: a term that is blank is none the  *)
(* code calls undefined.                                                   *)
RulesRestOnText ==
  (ladder_errors(contract) = {} /\ contract.status.rules > 1) =>
    \A t \in contract.used : contract.terms[t] = "text"

(* "A source is connected when something proves it, not when it says so"   *)
(* (data_sources.py:91).  Not kept where a field may hold null: str(None)  *)
(* is "None", which is not empty.                                          *)
ConnectedIsProven ==
  may_run_detector(source) => source.artifact = "text" /\ source.commit = "text"

=============================================================================
