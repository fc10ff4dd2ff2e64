------------------------------- MODULE MCDocuments -------------------------------
(* Documents for TLC.  The tree: the index, three wave files of which two    *)
(* carry the number 1, a script, one like it in a build directory, a record  *)
(* and a workflow.  The records: a contract at the bottom and one at the top *)
(* of the ladder, a source that is mapped and one that is connected.         *)
EXTENDS Documents, MCPromptStacks

MCPaths == <<"build/tool.py", "ci.yml", "tool.py", "waves/index.json",
             "wave01.yaml", "wave1.yaml", "wave2.yaml">>
MCWavePaths == {"wave01.yaml", "wave1.yaml", "wave2.yaml"}
MCCanonical == {"wave1.yaml", "wave2.yaml"}
MCNumber == [p \in MCWavePaths |-> IF p = "wave2.yaml" THEN 2 ELSE 1]

In(state) == [state |-> state, waves |-> {}, names |-> {}, ours |-> FALSE, jobs |-> {}]
Wave(id, name, ours_) ==
  [In("object") EXCEPT !.waves = {id}, !.names = {name}, !.ours = ours_]
Index(ns, ours_) == [In("object") EXCEPT !.waves = ns, !.ours = ours_]
Jobs(js) == [In("object") EXCEPT !.jobs = js]

Good(p) ==
  CASE p = "wave2.yaml" -> Wave(2, 2, TRUE)
    [] p \in {"wave1.yaml", "wave01.yaml"} -> Wave(1, 1, TRUE)
    [] p = "waves/index.json" -> Index({1, 2}, TRUE)
    [] p = "ci.yml" -> Jobs({<<{"check"}, {}>>, <<{"check"}>>})
    [] OTHER -> In("object")

Other(p) ==
  CASE p = "wave2.yaml" -> {Wave(1, 2, TRUE), Wave(2, 1, TRUE), Wave(2, 2, FALSE)}
    [] p \in {"wave1.yaml", "wave01.yaml"} -> {Wave(2, 2, TRUE)}
    [] p = "waves/index.json" -> {Index({1}, TRUE), Index({1, 2, 3}, FALSE), In("odd")}
    [] p = "ci.yml" -> {Jobs({<<{"check"}, {"check"}>>}), In("odd")}
    [] OTHER -> {}

MCWritable ==
  [p \in Range(MCPaths) |->
     {Good(p), In("absent"), In("damaged")} \cup Other(p)
       \cup (IF p \in {"tool.py", "wave2.yaml"} THEN {In("unreadable"), In("undecodable")} ELSE {})
       \cup (IF p \in {"wave2.yaml", "waves/index.json", "ci.yml"} THEN {In("breaking")} ELSE {})]

Sound == [p \in Range(MCPaths) |-> IF p = "wave01.yaml" THEN In("absent") ELSE Good(p)]
MCTrees == {Sound} \cup {[Sound EXCEPT ![p] = In("damaged")] : p \in {"build/tool.py", "wave1.yaml"}}

Entry_(p, c) == [malformed |-> FALSE, path |-> p, sha256 |-> c]
Malformed_ == [malformed |-> TRUE, path |-> "tool.py", sha256 |-> In("odd")]
MCEvidence ==
  {<<>>, <<Malformed_>>, <<Entry_("tool.py", In("object")), Malformed_>>,
   <<Entry_("tool.py", In("object")), Entry_("wave2.yaml", Wave(2, 2, TRUE))>>,
   <<Entry_("tool.py", In("damaged")), Entry_("ci.yml", Good("ci.yml"))>>}

Status(rung(_)) == [a \in DOMAIN RUNGS |-> rung(a)]
Bottom(a) == 1
Top(a) == RUNGS[a]
Contract(st, terms) == [live |-> FALSE, status |-> st, used |-> {"HH"}, terms |-> terms]
Undefined == [t \in Terms |-> "UNDEFINED"]
Written == [t \in Terms |-> "text"]
MCContracts ==
  {Contract(Status(Bottom), Undefined), Contract(Status(Top), Written),
   Contract([Status(Bottom) EXCEPT !.source = 3], [Written EXCEPT ![SWING_PARAMETERS] = "absent"])}

Vendor(question, verified, how) ==
  [is_object |-> TRUE, has_verification |-> TRUE, question |-> question, url |-> "text",
   terms_verified |-> verified, verified_how |-> how]
MCCandidates ==
  {Vendor("text", FALSE, ""), Vendor("text", TRUE, "text"), Vendor("text", TRUE, ""),
   Vendor("", FALSE, ""), [Vendor("text", TRUE, "") EXCEPT !.has_verification = FALSE],
   [Vendor("text", FALSE, "") EXCEPT !.is_object = FALSE]}
Source(state, proof, candidates_) ==
  [state |-> state, artifact |-> proof, commit |-> proof, candidates |-> candidates_,
   document |-> "text", document_exists |-> TRUE]
MCSources ==
  {Source("MAPPED_UNVERIFIED", "", <<Vendor("text", FALSE, "")>>),
   Source("CONNECTED", "text", <<Vendor("text", TRUE, "text")>>)}

=============================================================================
