---------------------------- MODULE Documents_proofs ----------------------------
(***************************************************************************)
(* What the readers of the repository's documents say, proved for every    *)
(* registry, tree and record there may be, and any number of edits.        *)
(***************************************************************************)
EXTENDS Documents, FiniteSetTheorems, WellFoundedInduction, TLAPS

-----------------------------------------------------------------------------
(* Counting, and lists                                                     *)

(* The order of the natural numbers, in the form the provers can use.      *)
LEMMA LessIsWellFounded == IsWellFoundedOn({ss \in Nat \X Nat : ss[1] < ss[2]}, Nat)
<1>1. OpToRel(<, Nat) = {ss \in Nat \X Nat : ss[1] < ss[2]}
  BY Zenon DEF OpToRel
<1>2. QED
  BY NatLessThanWellFounded, Zenon DEF OpToRel

LEMMA Least ==
  ASSUME NEW T, T \subseteq Nat, T # {}
  PROVE  \E m \in T : \A k \in T : m <= k
<1> DEFINE R == {ss \in Nat \X Nat : ss[1] < ss[2]}
<1>1. \E x \in T : \A y \in T : <<y, x>> \notin R
  <2>1. IsWellFoundedOn(R, Nat)
    BY LessIsWellFounded
  <2> HIDE DEF R
  <2>2. QED
    BY <2>1, WFMin
<1>2. PICK m \in T : \A k \in T : <<k, m>> \notin R
  BY <1>1
<1>3. \A k \in T : ~(k < m)
  BY <1>2
<1>4. QED
  BY <1>3

(* Induction, over a set of numbers.                                       *)
LEMMA Counting ==
  ASSUME NEW T, 0 \in T, \A n \in Nat : n \in T => n + 1 \in T
  PROVE  Nat \subseteq T
<1> SUFFICES ASSUME Nat \ T # {} PROVE FALSE
  OBVIOUS
<1>1. PICK m \in Nat \ T : \A k \in Nat \ T : m <= k
  BY Least
<1>2. m # 0 /\ m - 1 \in Nat /\ m - 1 \notin Nat \ T
  BY <1>1
<1>3. QED
  BY <1>2

LEMMA HeadAndTail ==
  ASSUME NEW S, NEW s \in Seq(S), s # <<>>
  PROVE  /\ Head(s) \in S /\ Tail(s) \in Seq(S)
         /\ Range(s) = {Head(s)} \cup Range(Tail(s))
<1>1. Head(s) \in S /\ Tail(s) \in Seq(S) /\ Len(s) \in Nat \ {0} /\ Head(s) = s[1]
  OBVIOUS
<1>2. Len(Tail(s)) = Len(s) - 1 /\ \A i \in 1 .. Len(s) - 1 : Tail(s)[i] = s[i + 1]
  OBVIOUS
<1>3. DOMAIN s = 1 .. Len(s) /\ DOMAIN Tail(s) = 1 .. Len(s) - 1
  BY <1>1, <1>2
<1>4. ASSUME NEW x \in Range(s) PROVE x \in {Head(s)} \cup Range(Tail(s))
  <2>1. PICK i \in 1 .. Len(s) : x = s[i]
    BY <1>3 DEF Range
  <2>2. CASE i = 1
    BY <1>1, <2>1, <2>2
  <2>3. CASE i # 1
    <3>1. i - 1 \in 1 .. Len(s) - 1 /\ Tail(s)[i - 1] = x
      BY <1>1, <1>2, <2>1, <2>3
    <3>2. QED
      BY <1>3, <3>1 DEF Range
  <2>4. QED
    BY <2>2, <2>3
<1>5. Head(s) \in Range(s)
  BY <1>1, <1>3 DEF Range
<1>6. ASSUME NEW x \in Range(Tail(s)) PROVE x \in Range(s)
  <2>1. PICK i \in 1 .. Len(s) - 1 : x = Tail(s)[i]
    BY <1>3 DEF Range
  <2>2. i + 1 \in 1 .. Len(s) /\ x = s[i + 1]
    BY <1>1, <1>2, <2>1
  <2>3. QED
    BY <1>3, <2>2 DEF Range
<1>7. QED
  BY <1>1, <1>4, <1>5, <1>6

(* What is listed in order is what was to be listed.                       *)
LEMMA InOrderLists ==
  ASSUME NEW ps \in SUBSET AllPaths
  PROVE  InOrder(ps) \in Seq(ps) /\ Range(InOrder(ps)) = ps
<1> DEFINE m == Len(Paths)
           kept[n \in 0 .. m] ==
             IF n = 0 THEN <<>>
             ELSE IF Paths[n] \in ps THEN Append(kept[n - 1], Paths[n]) ELSE kept[n - 1]
           Goes(n, v) == IF Paths[n] \in ps THEN Append(v, Paths[n]) ELSE v
           Upto(k, f) == f = [n \in 0 .. k |-> IF n = 0 THEN <<>> ELSE Goes(n, f[n - 1])]
<1>1. m \in Nat /\ DOMAIN Paths = 1 .. m
  BY TreeAssumption
<1>2. \E f : Upto(m, f)
  <2> DEFINE T == {k \in Nat : \E f : Upto(k, f)}
  <2>1. 0 \in T
    <3>1. Upto(0, [n \in 0 .. 0 |-> <<>>])
      OBVIOUS
    <3>2. QED
      BY <3>1
  <2>2. ASSUME NEW k \in T PROVE k + 1 \in T
    <3>1. PICK f : Upto(k, f)
      OBVIOUS
    <3> DEFINE g == [n \in 0 .. k + 1 |-> IF n = k + 1 THEN Goes(k + 1, f[k]) ELSE f[n]]
    <3>2. Upto(k + 1, g)
      <4> HIDE DEF Goes
      <4> QED BY <3>1
    <3> HIDE DEF g, Upto
    <3>3. QED
      BY <3>2
  <2> HIDE DEF T
  <2>3. m \in T
    BY <1>1, <2>1, <2>2, Counting
  <2>4. QED
    BY <2>3 DEF T
<1>3. Upto(m, kept)
  BY <1>2
<1>4. InOrder(ps) = kept[m]
  BY DEF InOrder
<1> DEFINE Listed(n) == /\ kept[n] \in Seq(ps)
                        /\ Range(kept[n]) = {Paths[i] : i \in 1 .. n} \cap ps
<1> HIDE DEF kept
<1>5. Listed(m)
  <2> DEFINE T == {k \in Nat : k <= m => Listed(k)}
  <2>1. 0 \in T
    BY <1>1, <1>3 DEF Range
  <2>2. ASSUME NEW k \in Nat, k \in T PROVE k + 1 \in T
    <3> SUFFICES ASSUME k + 1 <= m PROVE Listed(k + 1)
      OBVIOUS
    <3>1. Listed(k)
      BY <1>1, <2>2
    <3>2. kept[k + 1] = Goes(k + 1, kept[k])
      <4>1. k + 1 \in 0 .. m /\ k + 1 # 0 /\ (k + 1) - 1 = k
        BY <1>1
      <4> HIDE DEF Goes, m
      <4>2. QED
        BY <1>3, <4>1
    <3>3. {Paths[i] : i \in 1 .. k + 1} = {Paths[i] : i \in 1 .. k} \cup {Paths[k + 1]}
      OBVIOUS
    <3>4. ASSUME Paths[k + 1] \in ps
          PROVE  Range(Append(kept[k], Paths[k + 1])) = Range(kept[k]) \cup {Paths[k + 1]}
      <4> DEFINE s == kept[k]
                 x == Paths[k + 1]
      <4>1. s \in Seq(ps)
        BY <3>1
      <4> HIDE DEF s, x
      <4>2. /\ DOMAIN Append(s, x) = 1 .. Len(s) + 1
            /\ \A i \in 1 .. Len(s) : Append(s, x)[i] = s[i]
            /\ Append(s, x)[Len(s) + 1] = x
        BY <4>1
      <4>3. Len(s) \in Nat /\ DOMAIN s = 1 .. Len(s)
        BY <4>1
      <4>4. Range(Append(s, x)) = Range(s) \cup {x}
        BY <4>2, <4>3 DEF Range
      <4>5. QED
        BY <4>4 DEF s, x
    <3>5. QED
      BY <3>1, <3>2, <3>3, <3>4
  <2> HIDE DEF T
  <2>3. m \in T
    BY <1>1, <2>1, <2>2, Counting
  <2>4. QED
    BY <1>1, <2>3 DEF T
<1>6. {Paths[i] : i \in 1 .. m} = AllPaths
  BY <1>1 DEF AllPaths, Range
<1>7. QED
  BY <1>4, <1>5, <1>6

-----------------------------------------------------------------------------
(* The readers of the working tree                                         *)

SyntaxKinds == <<"python", "json", "workflows">>
OwnedPaths ==
  [python |-> PythonPaths \ ExcludedPaths, json |-> JsonPaths \ ExcludedPaths,
   workflows |-> WorkflowPaths]
Entries == [malformed: BOOLEAN, path: AllPaths, sha256: FileContents]

TreeTyped == worktree \in [AllPaths -> FileContents] /\ touched \subseteq AllPaths

(* What has been read of a file nobody touched is in the findings, and     *)
(* what is found of such a file is so.                                     *)
BindingSoFar ==
  reader = "binding" =>
    /\ stage \in {"reading", "returned"}
    /\ declared \in Seq(Entries) /\ unread \in Seq(Entries)
    /\ Range(unread) \subseteq Range(declared)
    /\ stage = "returned" => unread = <<>>
    /\ \A e \in Range(declared) \ Range(unread) :
         /\ e.malformed => Says("malformed", e.path)
         /\ Steady(e.path) => \A w \in EntryFindings(e) : Says(w, e.path)
    /\ \A f \in found : \E e \in Range(declared), w \in {"malformed", "missing", "changed"} :
         /\ f = <<w, e.path>>
         /\ w = "malformed" => e.malformed
         /\ Steady(e.path) => w \in EntryFindings(e)

ArtifactsSoFar ==
  reader = "artifacts" /\ stage \in {"reading", "returned"} =>
    /\ unread \in Seq(WavePaths)
    /\ stage = "returned" => unread = <<>>
    /\ \A p \in WavePaths : Steady(p) /\ p \in Range(unread) => OnDisk(p)
    /\ \A p \in WavePaths : Steady(p) /\ p \notin Range(unread) /\ OnDisk(p) =>
         \A w \in ArtifactFindings(worktree[p], Number[p]) : Says(w, p)
    /\ \A f \in found :
         \E p \in WavePaths, w \in {"unreadable", "repository", "qualified_id", "wave_id"} :
           /\ f = <<w, p>>
           /\ Steady(p) => OnDisk(p) /\ w \in ArtifactFindings(worktree[p], Number[p])

IndexSoFar ==
  /\ reader = "index" /\ stage = "comparing" /\ Steady(IndexPath) =>
       /\ worktree[IndexPath].state = "object"
       /\ index = [waves |-> worktree[IndexPath].waves, ours |-> worktree[IndexPath].ours]
  /\ IndexStands

NumbersSoFar ==
  reader = "names" =>
    \A n \in Range(Number) \cup THEIR_WAVES : Settled(n) =>
      /\ stage \in {"ours", "theirs", "returned"} =>
           (n \in placed.ambiguous <=> Exists(n) /\ n \in THEIR_WAVES)
      /\ stage \in {"theirs", "returned"} =>
           (n \in placed.ours <=> Exists(n) /\ n \notin THEIR_WAVES)
      /\ stage = "returned" =>
           (n \in placed.theirs <=> ~Exists(n) /\ n \in THEIR_WAVES)

(* Of the checks up to the k-th: what was read is said, and what is said is*)
(* so.                                                                     *)
SyntaxSaid(k) ==
  \A j \in 1 .. k : \A p \in OwnedPaths[SyntaxKinds[j]] :
    Steady(p) /\ OnDisk(p) /\ (j = k => stage # "listing" /\ p \notin Range(unread)) =>
      /\ worktree[p].state # "breaking"
      /\ \A w \in SyntaxFindings(SyntaxKinds[j], worktree[p]) : Says(w, p)

SyntaxIsSo(k) ==
  \A f \in found : \E j \in 1 .. k : \E p \in OwnedPaths[SyntaxKinds[j]] :
    /\ f = <<f[1], p>> /\ f[1] \notin {"no file", "not listed"}
    /\ Steady(p) => OnDisk(p) /\ f[1] \in SyntaxFindings(SyntaxKinds[j], worktree[p])

SyntaxUnread ==
  /\ stage \in {"listing", "reading", "returned"}
  /\ stage = "returned" => reader = "workflows" /\ unread = <<>>
  /\ stage # "listing" => /\ unread \in Seq(OwnedPaths[reader])
                          /\ \A p \in Range(unread) : Steady(p) => OnDisk(p)

SyntaxSoFar ==
  /\ stage = "listing" => reader \in {"python", "json", "workflows"}
  /\ \A k \in 1 .. 3 : reader = SyntaxKinds[k] /\ stage # "raised" =>
       SyntaxUnread /\ SyntaxSaid(k) /\ SyntaxIsSo(k)

ReadersInv ==
  /\ TreeTyped /\ BindingSoFar /\ ArtifactsSoFar /\ IndexSoFar /\ NumbersSoFar /\ SyntaxSoFar

(* An edit touches the file it changes, and leaves every other as it is.   *)
LEMMA EditTouches ==
  ASSUME TreeTyped, NEW p \in AllPaths, NEW c \in Writable[p], TreeEdit(p, c)
  PROVE  /\ TreeTyped'
         /\ \A q \in AllPaths : Steady(q)' => Steady(q) /\ worktree'[q] = worktree[q]
  BY TreeAssumption DEF TreeEdit, TreeTyped, Steady

LEMMA EditKeepsBinding ==
  ASSUME TreeTyped, BindingSoFar, NEW p \in AllPaths, NEW c \in Writable[p], TreeEdit(p, c)
  PROVE  BindingSoFar'
<1> SUFFICES ASSUME reader' = "binding" PROVE BindingSoFar'
  BY DEF BindingSoFar
<1>1. UNCHANGED <<reader, stage, unread, declared, found>>
  BY DEF TreeEdit
<1>2. Range(declared) \subseteq Entries
  <2>1. declared \in Seq(Entries)
    BY <1>1 DEF BindingSoFar
  <2>2. QED
    BY <2>1 DEF Range
<1>3. ASSUME NEW e \in Range(declared), Steady(e.path)'
      PROVE  Steady(e.path) /\ EntryFindings(e)' = EntryFindings(e)
  <2>1. e.path \in AllPaths
    BY <1>2, <1>3 DEF Entries
  <2>2. Steady(e.path) /\ worktree'[e.path] = worktree[e.path]
    BY <1>3, <2>1, EditTouches
  <2>3. QED
    BY <2>2 DEF EntryFindings
<1>4. ASSUME NEW e \in Range(declared) \ Range(unread)
      PROVE  /\ e.malformed => Says("malformed", e.path)'
             /\ Steady(e.path)' => \A w \in EntryFindings(e)' : Says(w, e.path)'
  BY <1>1, <1>3 DEF BindingSoFar, Says
<1>5. ASSUME NEW f \in found
      PROVE  \E e \in Range(declared), w \in {"malformed", "missing", "changed"} :
               /\ f = <<w, e.path>>
               /\ w = "malformed" => e.malformed
               /\ Steady(e.path)' => w \in EntryFindings(e)'
  <2>1. PICK e \in Range(declared), w \in {"malformed", "missing", "changed"} :
               /\ f = <<w, e.path>>
               /\ w = "malformed" => e.malformed
               /\ Steady(e.path) => w \in EntryFindings(e)
    BY <1>1 DEF BindingSoFar
  <2>2. Steady(e.path)' => w \in EntryFindings(e)'
    BY <1>3, <2>1
  <2>3. QED
    BY <2>1, <2>2
<1>6. QED
  BY <1>1, <1>4, <1>5 DEF BindingSoFar

LEMMA EditKeepsArtifacts ==
  ASSUME TreeTyped, ArtifactsSoFar, NEW p \in AllPaths, NEW c \in Writable[p], TreeEdit(p, c)
  PROVE  ArtifactsSoFar'
<1>1. UNCHANGED <<reader, stage, unread, found>>
  BY DEF TreeEdit
<1>2. \A q \in WavePaths : Steady(q)' =>
        /\ Steady(q) /\ OnDisk(q)' = OnDisk(q)
        /\ ArtifactFindings(worktree[q], Number[q])' = ArtifactFindings(worktree[q], Number[q])
  BY EditTouches, TreeAssumption DEF OnDisk, ArtifactFindings
<1>3. QED
  BY <1>1, <1>2 DEF ArtifactsSoFar, Says

LEMMA EditKeepsIndex ==
  ASSUME TreeTyped, IndexSoFar, NEW p \in AllPaths, NEW c \in Writable[p], TreeEdit(p, c)
  PROVE  IndexSoFar'
<1>1. UNCHANGED <<reader, stage, unread, found, index>>
  BY DEF TreeEdit
<1>2. Steady(IndexPath)' => Steady(IndexPath) /\ worktree'[IndexPath] = worktree[IndexPath]
  BY EditTouches, TreeAssumption
<1>3. ASSUME NEW n, Settled(n)' PROVE Settled(n) /\ Exists(n)' = Exists(n)
  <2>1. \A q \in WavePaths : Number[q] = n => Steady(q) /\ worktree'[q] = worktree[q]
    BY <1>3, EditTouches, TreeAssumption DEF Settled
  <2>2. QED
    BY <2>1 DEF Settled, Exists, OnDisk
<1>4. QED
  BY <1>1, <1>2, <1>3 DEF IndexSoFar, IndexStands, Named, Says

LEMMA EditKeepsNumbers ==
  ASSUME TreeTyped, NumbersSoFar, NEW p \in AllPaths, NEW c \in Writable[p], TreeEdit(p, c)
  PROVE  NumbersSoFar'
<1>1. UNCHANGED <<reader, stage, placed>>
  BY DEF TreeEdit
<1>2. ASSUME NEW n, Settled(n)' PROVE Settled(n) /\ Exists(n)' = Exists(n)
  <2>1. \A q \in WavePaths : Number[q] = n => Steady(q) /\ worktree'[q] = worktree[q]
    BY <1>2, EditTouches, TreeAssumption DEF Settled
  <2>2. QED
    BY <2>1 DEF Settled, Exists, OnDisk
<1>3. QED
  BY <1>1, <1>2 DEF NumbersSoFar

LEMMA EditKeepsSyntax ==
  ASSUME TreeTyped, SyntaxSoFar, NEW p \in AllPaths, NEW c \in Writable[p], TreeEdit(p, c)
  PROVE  SyntaxSoFar'
<1>1. UNCHANGED <<reader, stage, unread, found>>
  BY DEF TreeEdit
<1>2. \A k \in 1 .. 3 : OwnedPaths[SyntaxKinds[k]] \subseteq AllPaths
  BY TreeAssumption DEF OwnedPaths, SyntaxKinds
<1>3. ASSUME NEW q \in AllPaths, Steady(q)'
      PROVE  Steady(q) /\ OnDisk(q)' = OnDisk(q) /\ worktree'[q] = worktree[q]
  BY <1>3, EditTouches DEF OnDisk
<1>4. ASSUME NEW k \in 1 .. 3, reader = SyntaxKinds[k], stage # "raised" PROVE SyntaxUnread'
  <2>1. SyntaxUnread /\ OwnedPaths[reader] \subseteq AllPaths
    BY <1>2, <1>4 DEF SyntaxSoFar
  <2>2. stage # "listing" => Range(unread) \subseteq AllPaths
    BY <2>1 DEF SyntaxUnread, Range
  <2>3. QED
    BY <1>1, <1>3, <2>1, <2>2 DEF SyntaxUnread
<1>5. ASSUME NEW k \in 1 .. 3, reader = SyntaxKinds[k], stage # "raised" PROVE SyntaxSaid(k)'
  <2>1. SyntaxSaid(k)
    BY <1>5 DEF SyntaxSoFar
  <2>2. QED
    BY <1>1, <1>2, <1>3, <2>1 DEF SyntaxSaid, Says
<1>6. ASSUME NEW k \in 1 .. 3, reader = SyntaxKinds[k], stage # "raised" PROVE SyntaxIsSo(k)'
  <2>1. SyntaxIsSo(k)
    BY <1>6 DEF SyntaxSoFar
  <2>2. ASSUME NEW f \in found
        PROVE  \E j \in 1 .. k : \E q \in OwnedPaths[SyntaxKinds[j]] :
                 /\ f = <<f[1], q>> /\ f[1] \notin {"no file", "not listed"}
                 /\ Steady(q)' =>
                      OnDisk(q)' /\ f[1] \in SyntaxFindings(SyntaxKinds[j], worktree'[q])
    <3>1. PICK j \in 1 .. k : \E q \in OwnedPaths[SyntaxKinds[j]] :
            /\ f = <<f[1], q>> /\ f[1] \notin {"no file", "not listed"}
            /\ Steady(q) => OnDisk(q) /\ f[1] \in SyntaxFindings(SyntaxKinds[j], worktree[q])
      BY <2>1 DEF SyntaxIsSo
    <3>2. PICK q \in OwnedPaths[SyntaxKinds[j]] :
            /\ f = <<f[1], q>> /\ f[1] \notin {"no file", "not listed"}
            /\ Steady(q) => OnDisk(q) /\ f[1] \in SyntaxFindings(SyntaxKinds[j], worktree[q])
      BY <3>1
    <3>3. q \in AllPaths
      BY <1>2
    <3>4. QED
      BY <1>3, <3>2, <3>3
  <2>3. QED
    BY <1>1, <2>2 DEF SyntaxIsSo
<1>7. QED
  BY <1>1, <1>4, <1>5, <1>6 DEF SyntaxSoFar

LEMMA KindsAreThree ==
  /\ \A k \in 1 .. 3 : SyntaxKinds[k] \in {"python", "json", "workflows"}
  /\ \A g \in {"python", "json", "workflows"} : \E k \in 1 .. 3 : g = SyntaxKinds[k]
  /\ \A j, k \in 1 .. 3 : SyntaxKinds[j] = SyntaxKinds[k] => j = k
  /\ \A k \in 1 .. 3 : OwnedPaths[SyntaxKinds[k]] \subseteq AllPaths
  BY TreeAssumption DEF SyntaxKinds, OwnedPaths

(* A reader that does not run has nothing to keep.                         *)
LEMMA OneReaderRuns ==
  /\ reader' # "binding" => BindingSoFar'
  /\ reader' # "artifacts" \/ stage' \notin {"reading", "returned"} => ArtifactsSoFar'
  /\ reader' # "index" \/ stage' \notin {"comparing", "returned"} => IndexSoFar'
  /\ reader' # "names" \/ stage' \notin {"ours", "theirs", "returned"} => NumbersSoFar'
  /\ reader' \notin {"python", "json", "workflows"} /\ stage' # "listing" => SyntaxSoFar'
  BY KindsAreThree
  DEF BindingSoFar, ArtifactsSoFar, IndexSoFar, IndexStands, NumbersSoFar, SyntaxSoFar

LEMMA BindingBegins ==
  ASSUME TreeTyped, NEW files \in Evidence, verify_declared_files(files)
  PROVE  ReadersInv'
<1>1. files \in Seq(Entries)
  BY TreeAssumption DEF Entries
<1>2. BindingSoFar'
  BY <1>1 DEF verify_declared_files, Begin, BindingSoFar
<1>3. QED
  BY <1>2, OneReaderRuns DEF verify_declared_files, Begin, ReadersInv, TreeTyped

LEMMA BindingReads ==
  ASSUME ReadersInv, DeclaredFileIsRead
  PROVE  ReadersInv'
<1> DEFINE e == Head(unread)
<1>1. /\ reader = "binding" /\ stage = "reading" /\ unread # <<>>
      /\ found' = found \cup {<<w, e.path>> : w \in EntryFindings(e)}
      /\ unread' = Tail(unread)
      /\ UNCHANGED <<worktree, touched, reader, stage, declared>>
  BY DEF DeclaredFileIsRead, Working, OneIsRead
<1>2. BindingSoFar
  BY DEF ReadersInv
<1>3. /\ e \in Entries /\ unread' \in Seq(Entries)
      /\ Range(unread) = {e} \cup Range(unread')
  BY <1>1, <1>2, HeadAndTail DEF BindingSoFar
<1>4. e \in Range(declared)
  BY <1>1, <1>2, <1>3 DEF BindingSoFar
<1>5. ASSUME NEW d PROVE EntryFindings(d)' = EntryFindings(d) /\ Steady(d.path)' = Steady(d.path)
  BY <1>1 DEF EntryFindings, Steady
<1>6. /\ e.malformed \in BOOLEAN /\ e.malformed => EntryFindings(e) = {"malformed"}
      /\ EntryFindings(e) \subseteq {"malformed", "missing", "changed"}
      /\ "malformed" \in EntryFindings(e) => e.malformed
  BY <1>3 DEF EntryFindings, Entries
<1> HIDE DEF e
<1>7. ASSUME NEW d \in Range(declared) \ Range(unread')
      PROVE  /\ d.malformed => Says("malformed", d.path)'
             /\ Steady(d.path)' => \A w \in EntryFindings(d)' : Says(w, d.path)'
  <2>1. CASE d = e
    BY <1>1, <1>5, <1>6, <2>1 DEF Says
  <2>2. CASE d \notin Range(unread)
    BY <1>1, <1>2, <1>5, <1>7, <2>2 DEF Says, BindingSoFar
  <2>3. QED
    BY <1>3, <1>7, <2>1, <2>2
<1>8. ASSUME NEW f \in found'
      PROVE  \E d \in Range(declared), w \in {"malformed", "missing", "changed"} :
               /\ f = <<w, d.path>>
               /\ w = "malformed" => d.malformed
               /\ Steady(d.path)' => w \in EntryFindings(d)'
  <2>1. CASE f \in found
    BY <1>1, <1>2, <1>5, <2>1 DEF BindingSoFar
  <2>2. CASE f \notin found
    <3>1. PICK w \in EntryFindings(e) : f = <<w, e.path>>
      BY <1>1, <1>8, <2>2
    <3>2. QED
      BY <1>4, <1>5, <1>6, <3>1
  <2>3. QED
    BY <2>1, <2>2
<1>9. BindingSoFar'
  <2>1. declared' \in Seq(Entries) /\ Range(unread') \subseteq Range(declared')
    BY <1>1, <1>2, <1>3 DEF BindingSoFar
  <2>2. QED
    BY <1>1, <1>3, <1>7, <1>8, <2>1 DEF BindingSoFar
<1>10. TreeTyped'
  BY <1>1 DEF ReadersInv, TreeTyped
<1>11. QED
  BY <1>1, <1>9, <1>10, OneReaderRuns DEF ReadersInv

LEMMA ReadersReturn ==
  ASSUME ReadersInv, Return
  PROVE  ReadersInv'
<1>1. /\ stage = "reading" /\ unread = <<>> /\ stage' = "returned"
      /\ reader \in {"binding", "artifacts", "workflows"}
      /\ UNCHANGED <<worktree, touched, reader, unread, declared, index, found, placed>>
  BY DEF Return
<1>2. TreeTyped'
  BY <1>1 DEF ReadersInv, TreeTyped
<1>3. CASE reader = "binding"
  <2>1. BindingSoFar'
    <3>1. \A d : EntryFindings(d)' = EntryFindings(d)
      BY <1>1 DEF EntryFindings
    <3>2. QED
      BY <1>1, <1>3, <3>1 DEF ReadersInv, BindingSoFar, Steady, Says
  <2>2. QED
    BY <1>1, <1>2, <1>3, <2>1, OneReaderRuns DEF ReadersInv
<1>4. CASE reader = "artifacts"
  <2>1. ArtifactsSoFar'
    BY <1>1, <1>4 DEF ReadersInv, ArtifactsSoFar, Steady, Says, OnDisk
  <2>2. QED
    BY <1>1, <1>2, <1>4, <2>1, OneReaderRuns DEF ReadersInv
<1>5. CASE reader = "workflows"
  <2>1. SyntaxSoFar'
    <3>1. \A k \in 1 .. 3 : reader = SyntaxKinds[k] =>
            SyntaxUnread /\ SyntaxSaid(k) /\ SyntaxIsSo(k)
      BY <1>1 DEF ReadersInv, SyntaxSoFar
    <3>2. SyntaxUnread => SyntaxUnread'
      BY <1>1, <1>5 DEF SyntaxUnread, Steady, OnDisk
    <3>3. \A k \in 1 .. 3 : SyntaxSaid(k) => SyntaxSaid(k)'
      BY <1>1 DEF SyntaxSaid, Steady, OnDisk, Says
    <3>4. \A k \in 1 .. 3 : SyntaxIsSo(k) => SyntaxIsSo(k)'
      BY <1>1 DEF SyntaxIsSo, Steady, OnDisk
    <3>5. QED
      BY <1>1, <3>1, <3>2, <3>3, <3>4 DEF SyntaxSoFar
  <2>2. QED
    BY <1>1, <1>2, <1>5, <2>1, OneReaderRuns DEF ReadersInv
<1>6. QED
  BY <1>1, <1>3, <1>4, <1>5

LEMMA NumbersAreKept ==
  ASSUME ReadersInv, NumbersAreAsked \/ AmbiguousNumbers \/ UnambiguousToUs \/ UnambiguousToThem
  PROVE  ReadersInv'
<1>1. /\ reader' = "names" /\ stage' \in {"ambiguous", "ours", "theirs", "returned"}
      /\ touched' \in {{}, touched} /\ worktree' = worktree
  BY DEF NumbersAreAsked, Begin, AmbiguousNumbers, UnambiguousToUs, UnambiguousToThem, Working
<1>2. \A n : n \in our_waves <=> Exists(n)
  BY DEF our_waves, Exists
<1>3. NumbersSoFar'
  <2>1. CASE NumbersAreAsked
    BY <2>1 DEF NumbersAreAsked, Begin, NumbersSoFar
  <2>2. CASE AmbiguousNumbers
    BY <1>2, <2>2 DEF AmbiguousNumbers, Working, NumbersSoFar, Settled, Steady, Exists, OnDisk
  <2>3. CASE UnambiguousToUs
    BY <1>2, <2>3 DEF UnambiguousToUs, Working, NumbersSoFar, ReadersInv, Settled, Steady, Exists, OnDisk
  <2>4. CASE UnambiguousToThem
    BY <1>2, <2>4 DEF UnambiguousToThem, Working, NumbersSoFar, ReadersInv, Settled, Steady, Exists, OnDisk
  <2>5. QED
    BY <2>1, <2>2, <2>3, <2>4
<1>4. TreeTyped'
  BY <1>1 DEF ReadersInv, TreeTyped
<1>5. QED
  BY <1>1, <1>3, <1>4, OneReaderRuns DEF ReadersInv

LEMMA IndexIsKept ==
  ASSUME ReadersInv, index_disagreements \/ IndexIsRead \/ IndexIsCompared
  PROVE  ReadersInv'
<1>1. /\ reader' = "index" /\ stage' \in {"reading", "comparing", "raised", "returned"}
      /\ touched' \in {{}, touched} /\ worktree' = worktree
  BY DEF index_disagreements, Begin, IndexIsRead, IndexIsCompared, Working
<1>2. \A n : n \in our_waves <=> Exists(n)
  BY DEF our_waves, Exists
<1>3. IndexSoFar'
  <2>1. CASE index_disagreements
    BY <2>1, OneReaderRuns DEF index_disagreements, Begin
  <2>2. CASE IndexIsRead
    <3>1. worktree[IndexPath].state \in
            {"absent", "unreadable", "undecodable", "damaged", "breaking", "odd", "object"}
      BY TreeAssumption DEF ReadersInv, TreeTyped, FileContents
    <3>2. stage' = "comparing" =>
            /\ worktree[IndexPath].state = "object"
            /\ index' = [waves |-> worktree[IndexPath].waves, ours |-> worktree[IndexPath].ours]
      BY <2>2, <3>1 DEF IndexIsRead, Opens, Raises
    <3>3. stage' = "returned" =>
            worktree[IndexPath].state # "object" /\ found' = {<<"unreadable", IndexPath>>}
      BY <2>2 DEF IndexIsRead, Opens, Raises
    <3>4. stage' = "returned" => Named(IndexPath)'
      <4>1. <<"unreadable", IndexPath>>[1] = "unreadable" /\ <<"unreadable", IndexPath>>[2] = IndexPath
        OBVIOUS
      <4>2. QED
        BY <3>3, <4>1 DEF Named
    <3>5. QED
      BY <1>1, <3>2, <3>3, <3>4 DEF IndexSoFar, IndexStands
  <2>3. CASE IndexIsCompared
    <3> DEFINE c == worktree[IndexPath]
    <3>1. /\ found' = ({"no file"} \X (index.waves \ our_waves))
                        \cup ({"not listed"} \X (our_waves \ index.waves))
                        \cup (IF index.ours THEN {} ELSE {<<"repository", IndexPath>>})
          /\ stage' = "returned" /\ UNCHANGED <<worktree, touched>>
      BY <2>3 DEF IndexIsCompared
    <3>2. Steady(IndexPath) =>
            c.state = "object" /\ index = [waves |-> c.waves, ours |-> c.ours]
      BY <2>3 DEF IndexIsCompared, Working, ReadersInv, IndexSoFar
    <3>3. ASSUME Steady(IndexPath)
          PROVE  /\ Named(IndexPath)' <=> ~c.ours
                 /\ \A n : /\ Says("no file", n)' <=> n \in c.waves /\ ~Exists(n)
                           /\ Says("not listed", n)' <=> n \notin c.waves /\ Exists(n)
      <4>1. index.waves = c.waves /\ index.ours = c.ours
        BY <3>2, <3>3
      <4>2. \A f \in found' :
              f[1] \notin {"no file", "not listed"} /\ f[2] = IndexPath <=>
                ~c.ours /\ f = <<"repository", IndexPath>>
        <5> SUFFICES ASSUME NEW f \in found'
                     PROVE  f[1] \notin {"no file", "not listed"} /\ f[2] = IndexPath <=>
                              ~c.ours /\ f = <<"repository", IndexPath>>
          OBVIOUS
        <5>1. CASE f \in {"no file"} \X (index.waves \ our_waves)
          <6>1. f[1] = "no file"
            BY <5>1
          <6>2. <<"repository", IndexPath>>[1] = "repository"
            OBVIOUS
          <6>3. QED
            BY <6>1, <6>2
        <5>2. CASE f \in {"not listed"} \X (our_waves \ index.waves)
          <6>1. f[1] = "not listed"
            BY <5>2
          <6>2. <<"repository", IndexPath>>[1] = "repository"
            OBVIOUS
          <6>3. QED
            BY <6>1, <6>2
        <5>3. CASE ~c.ours /\ f = <<"repository", IndexPath>>
          BY <5>3
        <5>4. QED
          BY <3>1, <4>1, <5>1, <5>2, <5>3
      <4>3. ~c.ours => <<"repository", IndexPath>> \in found'
        BY <3>1, <4>1
      <4>4. Named(IndexPath)' <=> ~c.ours
        BY <4>2, <4>3 DEF Named
      <4>5. ASSUME NEW n
            PROVE  /\ <<"no file", n>> \in found' <=> n \in c.waves \ our_waves
                   /\ <<"not listed", n>> \in found' <=> n \in our_waves \ c.waves
        BY <3>1, <4>1
      <4>6. QED
        BY <1>2, <4>4, <4>5 DEF Says
    <3>4. \A n : Exists(n)' = Exists(n)
      BY <3>1 DEF Exists, OnDisk
    <3>5. Steady(IndexPath)' = Steady(IndexPath)
      BY <3>1 DEF Steady
    <3> HIDE DEF c
    <3>6. QED
      BY <3>1, <3>2, <3>3, <3>4, <3>5 DEF c, IndexSoFar, IndexStands
  <2>4. QED
    BY <2>1, <2>2, <2>3
<1>4. TreeTyped'
  BY <1>1 DEF ReadersInv, TreeTyped
<1>5. QED
  BY <1>1, <1>3, <1>4, OneReaderRuns DEF ReadersInv

LEMMA ArtifactsBegin ==
  ASSUME TreeTyped, artifact_disagreements
  PROVE  ReadersInv'
<1> DEFINE ps == {p \in WavePaths : OnDisk(p)}
<1>1. /\ reader' = "artifacts" /\ stage' = "reading" /\ unread' = InOrder(ps)
      /\ found' = {} /\ touched' = {} /\ worktree' = worktree
  BY DEF artifact_disagreements, Begin
<1>2. InOrder(ps) \in Seq(ps) /\ Range(InOrder(ps)) = ps
  BY InOrderLists, TreeAssumption
<1>3. InOrder(ps) \in Seq(WavePaths)
  BY <1>2
<1>4. \A p : OnDisk(p)' = OnDisk(p)
  BY <1>1 DEF OnDisk
<1>5. ArtifactsSoFar'
  BY <1>1, <1>2, <1>3, <1>4 DEF ArtifactsSoFar
<1>6. TreeTyped'
  BY <1>1 DEF TreeTyped
<1>7. QED
  BY <1>1, <1>5, <1>6, OneReaderRuns DEF ReadersInv

LEMMA ArtifactsRead ==
  ASSUME ReadersInv, WaveFileIsRead
  PROVE  ReadersInv'
<1> DEFINE p == Head(unread)
           escapes == Opens(worktree[p]) /\ Raises(worktree[p])
<1>1. /\ reader = "artifacts" /\ stage = "reading" /\ unread # <<>>
      /\ unread' = Tail(unread) /\ UNCHANGED <<worktree, touched, reader>>
      /\ stage' = IF escapes THEN "raised" ELSE stage
      /\ ~escapes => found' = found \cup {<<w, p>> : w \in ArtifactFindings(worktree[p], Number[p])}
  BY DEF WaveFileIsRead, Working, OneIsRead
<1>2. TreeTyped'
  BY <1>1 DEF ReadersInv, TreeTyped
<1>3. CASE escapes
  BY <1>1, <1>2, <1>3, OneReaderRuns DEF ReadersInv
<1>4. CASE ~escapes
  <2>1. ArtifactsSoFar
    BY DEF ReadersInv
  <2>2. /\ p \in WavePaths /\ unread' \in Seq(WavePaths)
        /\ Range(unread) = {p} \cup Range(unread')
    BY <1>1, <2>1, HeadAndTail DEF ArtifactsSoFar
  <2>3. ArtifactFindings(worktree[p], Number[p])
          \subseteq {"unreadable", "repository", "qualified_id", "wave_id"}
    BY DEF ArtifactFindings
  <2>4. Steady(p) => OnDisk(p)
    BY <1>1, <2>1, <2>2 DEF ArtifactsSoFar
  <2>5. \A q : OnDisk(q)' = OnDisk(q) /\ Steady(q)' = Steady(q)
    BY <1>1 DEF OnDisk, Steady
  <2> HIDE DEF p, escapes
  <2>6. \A q \in WavePaths : Steady(q) /\ q \notin Range(unread') /\ OnDisk(q) =>
          \A w \in ArtifactFindings(worktree[q], Number[q]) : Says(w, q)'
    BY <1>1, <1>4, <2>1, <2>2 DEF ArtifactsSoFar, Says
  <2>7. ASSUME NEW f \in found'
        PROVE  \E q \in WavePaths, w \in {"unreadable", "repository", "qualified_id", "wave_id"} :
                 /\ f = <<w, q>>
                 /\ Steady(q) => OnDisk(q) /\ w \in ArtifactFindings(worktree[q], Number[q])
    <3>1. CASE f \in found
      BY <1>1, <2>1, <3>1 DEF ArtifactsSoFar
    <3>2. CASE f \notin found
      <4>1. PICK w \in ArtifactFindings(worktree[p], Number[p]) : f = <<w, p>>
        BY <1>1, <1>4, <2>7, <3>2
      <4>2. QED
        BY <2>2, <2>3, <2>4, <4>1
    <3>3. QED
      BY <3>1, <3>2
  <2>8. \A q \in WavePaths : Steady(q) /\ q \in Range(unread') => OnDisk(q)
    BY <1>1, <2>1, <2>2 DEF ArtifactsSoFar
  <2>9. ArtifactsSoFar'
    BY <1>1, <1>4, <2>2, <2>5, <2>6, <2>7, <2>8 DEF ArtifactsSoFar
  <2>10. QED
    BY <1>1, <1>2, <2>9, OneReaderRuns DEF ReadersInv
<1>5. QED
  BY <1>3, <1>4

LEMMA SyntaxBegins ==
  ASSUME TreeTyped, run_syntax_gate
  PROVE  ReadersInv'
<1>1. /\ reader' = "python" /\ stage' = "listing"
      /\ found' = {} /\ touched' = {} /\ worktree' = worktree
  BY DEF run_syntax_gate, Begin
<1>2. ASSUME NEW k \in 1 .. 3, reader' = SyntaxKinds[k]
      PROVE  SyntaxUnread' /\ SyntaxSaid(k)' /\ SyntaxIsSo(k)'
  <2>1. k = 1
    BY <1>1, <1>2 DEF SyntaxKinds
  <2>2. QED
    BY <1>1, <2>1 DEF SyntaxUnread, SyntaxSaid, SyntaxIsSo
<1>3. TreeTyped'
  BY <1>1 DEF TreeTyped
<1>4. SyntaxSoFar'
  BY <1>1, <1>2 DEF SyntaxSoFar
<1>5. QED
  BY <1>1, <1>3, <1>4, OneReaderRuns DEF ReadersInv

LEMMA SyntaxLists ==
  ASSUME ReadersInv, FilesAreListed
  PROVE  ReadersInv'
<1>1. /\ stage = "listing" /\ stage' = "reading" /\ unread' = InOrder(Owned(reader))
      /\ UNCHANGED <<worktree, touched, reader, found>>
  BY DEF FilesAreListed
<1>2. reader \in {"python", "json", "workflows"}
  BY <1>1 DEF ReadersInv, SyntaxSoFar
<1>3. Owned(reader) = {p \in OwnedPaths[reader] : OnDisk(p)}
  BY <1>2 DEF Owned, OwnedPaths
<1>4. OwnedPaths[reader] \subseteq AllPaths
  BY <1>2, KindsAreThree
<1>5. unread' \in Seq(Owned(reader)) /\ Range(unread') = Owned(reader)
  BY <1>1, <1>3, <1>4, InOrderLists
<1>6. unread' \in Seq(OwnedPaths[reader])
  BY <1>3, <1>5
<1>7. \A p : OnDisk(p)' = OnDisk(p) /\ Steady(p)' = Steady(p)
  BY <1>1 DEF OnDisk, Steady
<1>8. ASSUME NEW k \in 1 .. 3, reader = SyntaxKinds[k]
      PROVE  SyntaxUnread' /\ SyntaxSaid(k)' /\ SyntaxIsSo(k)'
  <2>1. SyntaxUnread'
    BY <1>1, <1>3, <1>5, <1>6, <1>7 DEF SyntaxUnread
  <2>2. SyntaxSaid(k) /\ SyntaxIsSo(k)
    BY <1>1, <1>8 DEF ReadersInv, SyntaxSoFar
  <2>3. SyntaxSaid(k)'
    <3> SUFFICES ASSUME NEW j \in 1 .. k, NEW p \in OwnedPaths[SyntaxKinds[j]],
                        Steady(p), OnDisk(p), j = k => p \notin Range(unread')
                 PROVE  /\ worktree[p].state # "breaking"
                        /\ \A w \in SyntaxFindings(SyntaxKinds[j], worktree[p]) : Says(w, p)
      BY <1>1, <1>7 DEF SyntaxSaid, Says
    <3>1. j # k
      BY <1>3, <1>5, <1>8
    <3>2. QED
      BY <2>2, <3>1 DEF SyntaxSaid
  <2>4. SyntaxIsSo(k)'
    BY <1>1, <1>7, <2>2 DEF SyntaxIsSo
  <2>5. QED
    BY <2>1, <2>3, <2>4
<1>9. SyntaxSoFar'
  BY <1>1, <1>8 DEF SyntaxSoFar
<1>10. TreeTyped'
  BY <1>1 DEF ReadersInv, TreeTyped
<1>11. QED
  BY <1>1, <1>2, <1>9, <1>10, OneReaderRuns DEF ReadersInv

LEMMA FindingsAreNotNumbered ==
  ASSUME NEW g \in {"python", "json", "workflows"}, NEW c \in FileContents
  PROVE  \A w \in SyntaxFindings(g, c) : w \notin {"no file", "not listed"}
<1>1. duplicate_subcommands(c.jobs) \subseteq Subcommands
  <2>1. \A job \in c.jobs : Range(job) \subseteq SUBSET Subcommands
    BY DEF FileContents, Range
  <2>2. QED
    BY <2>1 DEF duplicate_subcommands
<1>2. QED
  BY <1>1 DEF SyntaxFindings, Subcommands

LEMMA SyntaxReads ==
  ASSUME ReadersInv, SourceIsRead
  PROVE  ReadersInv'
<1> DEFINE p == Head(unread)
<1>0. CASE worktree[p].state = "breaking"
  <2>1. /\ reader \in {"python", "json", "workflows"} /\ stage' = "raised"
        /\ UNCHANGED <<worktree, touched, reader>>
    BY <1>0 DEF SourceIsRead
  <2>2. TreeTyped' /\ SyntaxSoFar'
    BY <2>1 DEF ReadersInv, TreeTyped, SyntaxSoFar
  <2>3. QED
    BY <2>1, <2>2, OneReaderRuns DEF ReadersInv
<1> SUFFICES ASSUME worktree[p].state # "breaking" PROVE ReadersInv'
  BY <1>0
<1>1. /\ reader \in {"python", "json", "workflows"} /\ stage = "reading" /\ unread # <<>>
      /\ found' = found \cup {<<w, p>> : w \in SyntaxFindings(reader, worktree[p])}
      /\ unread' = Tail(unread) /\ UNCHANGED <<worktree, touched, reader, stage>>
  BY DEF SourceIsRead, OneIsRead
<1>2. PICK k \in 1 .. 3 : reader = SyntaxKinds[k]
  BY <1>1, KindsAreThree
<1>3. SyntaxUnread /\ SyntaxSaid(k) /\ SyntaxIsSo(k)
  BY <1>1, <1>2 DEF ReadersInv, SyntaxSoFar
<1>4. /\ p \in OwnedPaths[reader] /\ unread' \in Seq(OwnedPaths[reader])
      /\ Range(unread) = {p} \cup Range(unread')
  BY <1>1, <1>3, HeadAndTail DEF SyntaxUnread
<1>5. \A q : OnDisk(q)' = OnDisk(q) /\ Steady(q)' = Steady(q)
  BY <1>1 DEF OnDisk, Steady
<1>6. \A w \in SyntaxFindings(reader, worktree[p]) : w \notin {"no file", "not listed"}
  <2>1. worktree[p] \in FileContents
    BY <1>2, <1>4, KindsAreThree DEF ReadersInv, TreeTyped
  <2>2. QED
    BY <1>1, <2>1, FindingsAreNotNumbered
<1>7. Steady(p) => OnDisk(p)
  BY <1>1, <1>3, <1>4 DEF SyntaxUnread
<1> HIDE DEF p
<1>8. SyntaxUnread'
  BY <1>1, <1>3, <1>4, <1>5 DEF SyntaxUnread
<1>9. SyntaxSaid(k)'
  <2> SUFFICES ASSUME NEW j \in 1 .. k, NEW q \in OwnedPaths[SyntaxKinds[j]],
                      Steady(q), OnDisk(q), j = k => q \notin Range(unread')
               PROVE  /\ worktree[q].state # "breaking"
                      /\ \A w \in SyntaxFindings(SyntaxKinds[j], worktree[q]) : <<w, q>> \in found'
    BY <1>1, <1>5 DEF SyntaxSaid, Says
  <2>1. CASE j = k /\ q = p
    BY <1>1, <1>2, <2>1
  <2>2. CASE ~(j = k /\ q = p)
    BY <1>1, <1>3, <1>4, <2>2 DEF SyntaxSaid, Says
  <2>3. QED
    BY <2>1, <2>2
<1>10. SyntaxIsSo(k)'
  <2> SUFFICES ASSUME NEW f \in found'
               PROVE  \E j \in 1 .. k : \E q \in OwnedPaths[SyntaxKinds[j]] :
                        /\ f = <<f[1], q>> /\ f[1] \notin {"no file", "not listed"}
                        /\ Steady(q) => OnDisk(q) /\ f[1] \in SyntaxFindings(SyntaxKinds[j], worktree[q])
    BY <1>1, <1>5 DEF SyntaxIsSo
  <2>1. CASE f \in found
    BY <1>3, <2>1 DEF SyntaxIsSo
  <2>2. CASE f \notin found
    <3>1. PICK w \in SyntaxFindings(reader, worktree[p]) : f = <<w, p>>
      BY <1>1, <2>2
    <3>2. f[1] = w /\ f = <<f[1], p>>
      BY <3>1
    <3>3. k \in 1 .. k
      OBVIOUS
    <3>4. QED
      BY <1>2, <1>4, <1>6, <1>7, <3>1, <3>2, <3>3
  <2>3. QED
    BY <2>1, <2>2
<1>11. SyntaxSoFar'
  <2>1. \A j \in 1 .. 3 : reader' = SyntaxKinds[j] => j = k
    BY <1>1, <1>2, KindsAreThree
  <2>2. QED
    BY <1>1, <1>8, <1>9, <1>10, <2>1 DEF SyntaxSoFar
<1>12. TreeTyped'
  BY <1>1 DEF ReadersInv, TreeTyped
<1>13. QED
  BY <1>1, <1>11, <1>12, OneReaderRuns DEF ReadersInv

LEMMA SyntaxGoesOn ==
  ASSUME ReadersInv, NextCheck
  PROVE  ReadersInv'
<1>1. /\ reader \in {"python", "json"} /\ stage = "reading" /\ unread = <<>> /\ stage' = "listing"
      /\ reader' = IF reader = "python" THEN "json" ELSE "workflows"
      /\ UNCHANGED <<worktree, touched, found>>
  BY DEF NextCheck
<1>2. PICK k \in 1 .. 2 : reader = SyntaxKinds[k] /\ reader' = SyntaxKinds[k + 1]
  <2>1. \E k \in {1, 2} : reader = SyntaxKinds[k] /\ reader' = SyntaxKinds[k + 1]
    BY <1>1 DEF SyntaxKinds
  <2>2. QED
    BY <2>1
<1>3. SyntaxSaid(k) /\ SyntaxIsSo(k)
  BY <1>1, <1>2 DEF ReadersInv, SyntaxSoFar
<1>4. \A q : OnDisk(q)' = OnDisk(q) /\ Steady(q)' = Steady(q)
  BY <1>1 DEF OnDisk, Steady
<1>5. Range(unread) = {}
  BY <1>1 DEF Range
<1>6. SyntaxSaid(k + 1)'
  <2> SUFFICES ASSUME NEW j \in 1 .. k + 1, NEW q \in OwnedPaths[SyntaxKinds[j]],
                      Steady(q), OnDisk(q), j # k + 1
               PROVE  /\ worktree[q].state # "breaking"
                      /\ \A w \in SyntaxFindings(SyntaxKinds[j], worktree[q]) : <<w, q>> \in found
    BY <1>1, <1>4 DEF SyntaxSaid, Says
  <2>1. j \in 1 .. k
    OBVIOUS
  <2>2. QED
    BY <1>1, <1>3, <1>5, <2>1 DEF SyntaxSaid, Says
<1>7. SyntaxIsSo(k + 1)'
  <2>1. 1 .. k \subseteq 1 .. k + 1
    OBVIOUS
  <2>2. QED
    BY <1>1, <1>3, <1>4, <2>1 DEF SyntaxIsSo
<1>8. SyntaxSoFar'
  <2>1. \A j \in 1 .. 3 : reader' = SyntaxKinds[j] => j = k + 1
    <3>1. k + 1 \in 1 .. 3
      OBVIOUS
    <3>2. QED
      BY <1>2, <3>1, KindsAreThree
  <2>2. QED
    BY <1>1, <1>6, <1>7, <2>1 DEF SyntaxSoFar, SyntaxUnread
<1>9. TreeTyped'
  BY <1>1 DEF ReadersInv, TreeTyped
<1>10. QED
  BY <1>1, <1>8, <1>9, OneReaderRuns DEF ReadersInv

LEMMA ReadersKeep == ReadersInv /\ [ReadersNext]_tree_vars => ReadersInv'
<1> SUFFICES ASSUME ReadersInv, [ReadersNext]_tree_vars PROVE ReadersInv'
  OBVIOUS
<1>1. CASE \E p \in AllPaths : \E c \in Writable[p] : TreeEdit(p, c)
  BY <1>1, EditTouches, EditKeepsBinding, EditKeepsArtifacts, EditKeepsIndex,
     EditKeepsNumbers, EditKeepsSyntax DEF ReadersInv
<1>2. CASE \/ \E files \in Evidence : verify_declared_files(files)
           \/ DeclaredFileIsRead \/ Return
  BY <1>2, BindingBegins, BindingReads, ReadersReturn DEF ReadersInv
<1>3. CASE NumbersAreAsked \/ AmbiguousNumbers \/ UnambiguousToUs \/ UnambiguousToThem
  BY <1>3, NumbersAreKept
<1>4. CASE index_disagreements \/ IndexIsRead \/ IndexIsCompared
  BY <1>4, IndexIsKept
<1>5. CASE artifact_disagreements \/ WaveFileIsRead
  BY <1>5, ArtifactsBegin, ArtifactsRead DEF ReadersInv
<1>6. CASE run_syntax_gate \/ FilesAreListed \/ SourceIsRead \/ NextCheck
  BY <1>6, SyntaxBegins, SyntaxLists, SyntaxReads, SyntaxGoesOn DEF ReadersInv
<1>7. CASE UNCHANGED tree_vars
  <2>1. UNCHANGED <<worktree, touched, reader, stage, unread, declared, index, found, placed>>
    BY <1>7 DEF tree_vars
  <2>2. \A d : EntryFindings(d)' = EntryFindings(d)
    BY <2>1 DEF EntryFindings
  <2>3. BindingSoFar'
    BY <2>1, <2>2 DEF ReadersInv, BindingSoFar, Steady, Says
  <2>4. ArtifactsSoFar'
    BY <2>1 DEF ReadersInv, ArtifactsSoFar, Steady, Says, OnDisk
  <2>5. IndexSoFar'
    BY <2>1 DEF ReadersInv, IndexSoFar, IndexStands, Steady, Says, Named, Settled, Exists, OnDisk
  <2>6. NumbersSoFar'
    BY <2>1 DEF ReadersInv, NumbersSoFar, Steady, Settled, Exists, OnDisk
  <2>7. SyntaxSoFar'
    <3>1. SyntaxUnread => SyntaxUnread'
      BY <2>1 DEF SyntaxUnread, Steady, OnDisk
    <3>2. \A k \in 1 .. 3 : SyntaxSaid(k) => SyntaxSaid(k)'
      BY <2>1 DEF SyntaxSaid, Steady, OnDisk, Says
    <3>3. \A k \in 1 .. 3 : SyntaxIsSo(k) => SyntaxIsSo(k)'
      BY <2>1 DEF SyntaxIsSo, Steady, OnDisk
    <3>4. QED
      BY <2>1, <3>1, <3>2, <3>3 DEF ReadersInv, SyntaxSoFar
  <2>8. TreeTyped'
    BY <2>1 DEF ReadersInv, TreeTyped
  <2>9. QED
    BY <2>3, <2>4, <2>5, <2>6, <2>7, <2>8 DEF ReadersInv
<1>8. QED
  BY <1>1, <1>2, <1>3, <1>4, <1>5, <1>6, <1>7 DEF ReadersNext

LEMMA BindingIsTrue == ReadersInv => BindingStands
<1> SUFFICES ASSUME ReadersInv, reader = "binding", stage = "returned"
             PROVE  BindingStands
  BY DEF BindingStands
<1> DEFINE entries == Range(declared)
           holds(e) == ~e.malformed /\ Opens(worktree[e.path]) /\ worktree[e.path] = e.sha256
<1>1. \A e \in entries : /\ e.malformed \in BOOLEAN
                         /\ e.malformed => Says("malformed", e.path)
                         /\ Steady(e.path) => \A w \in EntryFindings(e) : Says(w, e.path)
  <2>1. unread = <<>> /\ declared \in Seq(Entries)
    BY DEF ReadersInv, BindingSoFar
  <2>2. Range(unread) = {} /\ Range(declared) \subseteq Entries
    BY <2>1 DEF Range
  <2>3. QED
    BY <2>2 DEF ReadersInv, BindingSoFar, Entries
<1>2. \A f \in found : \E e \in entries, w \in {"malformed", "missing", "changed"} :
        /\ f = <<w, e.path>>
        /\ w = "malformed" => e.malformed
        /\ Steady(e.path) => w \in EntryFindings(e)
  BY DEF ReadersInv, BindingSoFar
<1>3. \A w, x : Says(w, x) => Reported(w)
  BY DEF Says, Reported
<1>4. \A e \in entries :
        /\ "missing" \in EntryFindings(e) <=> ~e.malformed /\ ~Opens(worktree[e.path])
        /\ "changed" \in EntryFindings(e) <=>
             ~e.malformed /\ Opens(worktree[e.path]) /\ worktree[e.path] # e.sha256
  BY <1>1 DEF EntryFindings
<1>5. CASE BindingStatus = "CURRENT"
  <2>1. declared # <<>> /\ ~Reported("malformed") /\ ~Reported("missing") /\ ~Reported("changed")
    BY <1>5 DEF BindingStatus
  <2>2. \A e \in entries : Steady(e.path) => holds(e)
    BY <1>1, <1>3, <1>4, <2>1
  <2>3. QED
    BY <1>5, <2>1, <2>2 DEF BindingStands
<1>6. CASE BindingStatus = "STALE"
  <2>1. ~Reported("malformed") /\ ~Reported("missing") /\ Reported("changed")
    BY <1>6 DEF BindingStatus
  <2>2. \A e \in entries : Steady(e.path) => ~e.malformed /\ Opens(worktree[e.path])
    BY <1>1, <1>3, <1>4, <2>1
  <2>3. \E e \in entries : Steady(e.path) => ~holds(e)
    <3>1. PICK f \in found : f[1] = "changed"
      BY <2>1 DEF Reported
    <3>2. PICK e \in entries, w \in {"malformed", "missing", "changed"} :
            f = <<w, e.path>> /\ (Steady(e.path) => w \in EntryFindings(e))
      BY <1>2
    <3>3. w = "changed"
      BY <3>1, <3>2
    <3>4. QED
      BY <1>4, <3>2, <3>3
  <2>4. QED
    BY <1>6, <2>2, <2>3 DEF BindingStands
<1>7. CASE BindingStatus = "UNKNOWN"
  <2>1. declared = <<>> \/ Reported("malformed") \/ Reported("missing")
    BY <1>7 DEF BindingStatus
  <2>2. ASSUME Reported("malformed") \/ Reported("missing")
        PROVE  \E e \in entries : e.malformed \/ ~Steady(e.path) \/ ~Opens(worktree[e.path])
    <3>1. PICK f \in found : f[1] \in {"malformed", "missing"}
      BY <2>2 DEF Reported
    <3>2. PICK e \in entries, w \in {"malformed", "missing", "changed"} :
            /\ f = <<w, e.path>>
            /\ w = "malformed" => e.malformed
            /\ Steady(e.path) => w \in EntryFindings(e)
      BY <1>2
    <3>3. w \in {"malformed", "missing"}
      BY <3>1, <3>2
    <3>4. QED
      BY <1>4, <3>2, <3>3
  <2>3. QED
    BY <1>7, <2>1, <2>2 DEF BindingStands
<1>8. BindingStatus \in {"CURRENT", "STALE", "UNKNOWN"}
  BY DEF BindingStatus
<1>9. QED
  BY <1>5, <1>6, <1>7, <1>8

LEMMA ArtifactsAreTrue == ReadersInv => ArtifactsStand
<1> SUFFICES ASSUME ReadersInv, reader = "artifacts", stage = "returned",
                    NEW p \in WavePaths, Steady(p)
             PROVE  Named(p) <=>
                      /\ OnDisk(p)
                      /\ ~(/\ worktree[p].state = "object" /\ worktree[p].ours
                           /\ worktree[p].waves = {Number[p]} /\ worktree[p].names = {Number[p]})
  BY DEF ArtifactsStand
<1> DEFINE ws == ArtifactFindings(worktree[p], Number[p])
<1>1. Range(unread) = {}
  BY DEF ReadersInv, ArtifactsSoFar, Range
<1>2. OnDisk(p) => \A w \in ws : Says(w, p)
  BY <1>1 DEF ReadersInv, ArtifactsSoFar
<1>3. \A f \in found : f[2] = p => OnDisk(p) /\ ws # {}
  <2> SUFFICES ASSUME NEW f \in found, f[2] = p PROVE OnDisk(p) /\ ws # {}
    OBVIOUS
  <2>1. PICK q \in WavePaths, w \in {"unreadable", "repository", "qualified_id", "wave_id"} :
          /\ f = <<w, q>>
          /\ Steady(q) => OnDisk(q) /\ w \in ArtifactFindings(worktree[q], Number[q])
    BY DEF ReadersInv, ArtifactsSoFar
  <2>2. q = p
    BY <2>1
  <2>3. QED
    BY <2>1, <2>2
<1>4. ws # {} <=> ~(/\ worktree[p].state = "object" /\ worktree[p].ours
                    /\ worktree[p].waves = {Number[p]} /\ worktree[p].names = {Number[p]})
  BY DEF ArtifactFindings
<1>5. ws \subseteq {"unreadable", "repository", "qualified_id", "wave_id"}
  BY DEF ArtifactFindings
<1> HIDE DEF ws
<1>6. \A w \in ws : Says(w, p) => Named(p)
  <2> SUFFICES ASSUME NEW w \in ws, <<w, p>> \in found PROVE Named(p)
    BY DEF Says
  <2>1. <<w, p>>[1] = w /\ <<w, p>>[2] = p
    OBVIOUS
  <2>2. QED
    BY <1>5, <2>1 DEF Named
<1>7. Named(p) => \E f \in found : f[2] = p
  BY DEF Named
<1>8. QED
  BY <1>2, <1>3, <1>4, <1>6, <1>7

LEMMA NumbersAreTrue == ReadersInv => NumbersStand
  BY DEF ReadersInv, NumbersSoFar, NumbersStand

(* More than one step of a job runs a subcommand exactly when two do.      *)
LEMMA TwoStepsRunOne ==
  ASSUME NEW c \in FileContents
  PROVE  duplicate_subcommands(c.jobs) # {} <=>
           \E job \in c.jobs : \E i, j \in DOMAIN job : i < j /\ job[i] \cap job[j] # {}
<1>1. ASSUME NEW job \in c.jobs
      PROVE  /\ job \in Seq(SUBSET Subcommands) /\ DOMAIN job \subseteq Nat
             /\ \A s : Cardinality({i \in DOMAIN job : s \in job[i]}) > 1 <=>
                        \E i, j \in {i \in DOMAIN job : s \in job[i]} : i < j
  <2>1. job \in Seq(SUBSET Subcommands)
    BY DEF FileContents
  <2>2. DOMAIN job = 1 .. Len(job) /\ Len(job) \in Nat
    BY <2>1
  <2>3. IsFiniteSet(1 .. Len(job))
    BY <2>2, FS_Interval
  <2>4. ASSUME NEW s
        PROVE  Cardinality({i \in DOMAIN job : s \in job[i]}) > 1 <=>
                 \E i, j \in {i \in DOMAIN job : s \in job[i]} : i < j
    <3> DEFINE steps == {i \in DOMAIN job : s \in job[i]}
    <3>1. steps \subseteq 1 .. Len(job)
      BY <2>2
    <3> HIDE DEF steps
    <3>2. IsFiniteSet(steps)
      BY <2>3, <3>1, FS_Subset
    <3>3. /\ Cardinality(steps) \in Nat
          /\ Cardinality(steps) = 0 <=> steps = {}
          /\ Cardinality(steps) = 1 <=> \E x : steps = {x}
      BY <3>2, FS_CardinalityType, FS_EmptySet, FS_Singleton
    <3>4. (steps # {} /\ ~\E x : steps = {x}) <=> \E i, j \in steps : i # j
      OBVIOUS
    <3>5. (\E i, j \in steps : i # j) <=> \E i, j \in steps : i < j
      BY <3>1
    <3>6. Cardinality(steps) > 1 <=> Cardinality(steps) # 0 /\ Cardinality(steps) # 1
      BY <3>3
    <3>7. Cardinality(steps) > 1 <=> \E i, j \in steps : i < j
      BY <3>3, <3>4, <3>5, <3>6, Zenon
    <3>8. QED
      BY <3>7 DEF steps
  <2>5. DOMAIN job \subseteq Nat
    BY <2>2
  <2>6. QED
    BY <2>1, <2>4, <2>5, Zenon
<1>2. ASSUME NEW s \in duplicate_subcommands(c.jobs)
      PROVE  \E job \in c.jobs : \E i, j \in DOMAIN job : i < j /\ job[i] \cap job[j] # {}
  <2>1. PICK job \in c.jobs : Cardinality({i \in DOMAIN job : s \in job[i]}) > 1
    BY <1>2 DEF duplicate_subcommands
  <2>2. \E i, j \in {n \in DOMAIN job : s \in job[n]} : i < j
    BY <1>1, <2>1
  <2>3. QED
    BY <2>2
<1>3. ASSUME NEW job \in c.jobs, NEW i \in DOMAIN job, NEW j \in DOMAIN job, i < j,
             NEW s \in job[i] \cap job[j]
      PROVE  s \in duplicate_subcommands(c.jobs)
  <2>1. Cardinality({n \in DOMAIN job : s \in job[n]}) > 1
    BY <1>1, <1>3
  <2>2. job[i] \in Range(job)
    BY DEF Range
  <2>3. s \in UNION {UNION Range(d) : d \in c.jobs}
    BY <2>2
  <2>4. QED
    BY <2>1, <2>3 DEF duplicate_subcommands
<1>4. QED
  BY <1>2, <1>3

LEMMA SyntaxIsTrue == ReadersInv => SyntaxStands
<1> SUFFICES ASSUME ReadersInv, reader = "workflows", stage = "returned",
                    NEW p \in PythonPaths \cup JsonPaths \cup WorkflowPaths, Steady(p)
             PROVE  /\ Named(p) <=>
                         /\ OnDisk(p) /\ (p \in WorkflowPaths \/ p \notin ExcludedPaths)
                         /\ \/ worktree[p].state \in {"unreadable", "undecodable", "damaged"}
                            \/ /\ p \in WorkflowPaths
                               /\ \E job \in worktree[p].jobs : \E i, j \in DOMAIN job :
                                    i < j /\ job[i] \cap job[j] # {}
                    /\ IsOwned(p) => worktree[p].state # "breaking"
  BY DEF SyntaxStands, IsOwned
<1> DEFINE c == worktree[p]
           Twice == \E job \in c.jobs : \E i, j \in DOMAIN job : i < j /\ job[i] \cap job[j] # {}
           Fails(g) == SyntaxFindings(g, c) # {}
<1>1. /\ SyntaxSaid(3) /\ SyntaxIsSo(3) /\ Range(unread) = {} /\ c \in FileContents
  <2>1. reader = SyntaxKinds[3]
    BY DEF SyntaxKinds
  <2>2. unread = <<>> /\ SyntaxSaid(3) /\ SyntaxIsSo(3)
    BY <2>1 DEF ReadersInv, SyntaxSoFar, SyntaxUnread
  <2>3. p \in AllPaths
    BY TreeAssumption
  <2>4. QED
    BY <2>2, <2>3 DEF ReadersInv, TreeTyped, Range
<1>2. ASSUME NEW j \in 1 .. 3, p \in OwnedPaths[SyntaxKinds[j]], OnDisk(p), Fails(SyntaxKinds[j])
      PROVE  Named(p)
  <2>1. PICK w \in SyntaxFindings(SyntaxKinds[j], c) : <<w, p>> \in found
    BY <1>1, <1>2 DEF SyntaxSaid, Says
  <2>2. w \notin {"no file", "not listed"}
    BY <1>1, KindsAreThree, FindingsAreNotNumbered
  <2>3. <<w, p>>[1] = w /\ <<w, p>>[2] = p
    OBVIOUS
  <2>4. QED
    BY <2>1, <2>2, <2>3 DEF Named
<1>3. ASSUME Named(p)
      PROVE  \E j \in 1 .. 3 : p \in OwnedPaths[SyntaxKinds[j]] /\ OnDisk(p) /\ Fails(SyntaxKinds[j])
  <2>1. PICK f \in found : f[2] = p
    BY <1>3 DEF Named
  <2>2. PICK j \in 1 .. 3 : \E q \in OwnedPaths[SyntaxKinds[j]] :
          f = <<f[1], q>> /\ (Steady(q) => OnDisk(q) /\ f[1] \in SyntaxFindings(SyntaxKinds[j], worktree[q]))
    BY <1>1 DEF SyntaxIsSo
  <2>3. PICK q \in OwnedPaths[SyntaxKinds[j]] :
          f = <<f[1], q>> /\ (Steady(q) => OnDisk(q) /\ f[1] \in SyntaxFindings(SyntaxKinds[j], worktree[q]))
    BY <2>2
  <2>4. q = p
    BY <2>1, <2>3
  <2>5. QED
    BY <2>3, <2>4
<1>4. /\ OwnedPaths["python"] = PythonPaths \ ExcludedPaths
      /\ OwnedPaths["json"] = JsonPaths \ ExcludedPaths
      /\ OwnedPaths["workflows"] = WorkflowPaths
      /\ SyntaxKinds[1] = "python" /\ SyntaxKinds[2] = "json" /\ SyntaxKinds[3] = "workflows"
  BY DEF OwnedPaths, SyntaxKinds
<1>5. /\ OnDisk(p) => (Fails("python") <=> c.state \in {"unreadable", "undecodable", "damaged"})
      /\ OnDisk(p) => (Fails("json") <=> c.state \in {"unreadable", "undecodable", "damaged"})
      /\ OnDisk(p) => (Fails("workflows") <=>
                         c.state \in {"unreadable", "undecodable", "damaged"} \/ Twice)
  <2>1. duplicate_subcommands(c.jobs) # {} <=> Twice
    BY <1>1, TwoStepsRunOne
  <2> HIDE DEF Twice, c
  <2>2. OnDisk(p) => c.state # "absent"
    BY DEF OnDisk, c
  <2>3. QED
    BY <2>1, <2>2 DEF SyntaxFindings, Opens
<1> DEFINE Owned_(j) == p \in OwnedPaths[SyntaxKinds[j]] /\ OnDisk(p) /\ Fails(SyntaxKinds[j])
<1>6. Named(p) <=> Owned_(1) \/ Owned_(2) \/ Owned_(3)
  <2>1. \A j \in 1 .. 3 : j = 1 \/ j = 2 \/ j = 3
    OBVIOUS
  <2> HIDE DEF Fails
  <2>2. QED
    BY <1>2, <1>3, <2>1
<1> HIDE DEF Fails, Twice, c
<1>7. Named(p) <=> /\ OnDisk(p) /\ (p \in WorkflowPaths \/ p \notin ExcludedPaths)
                   /\ \/ c.state \in {"unreadable", "undecodable", "damaged"}
                      \/ p \in WorkflowPaths /\ Twice
  BY <1>4, <1>5, <1>6
<1>8. IsOwned(p) => c.state # "breaking"
  <2>1. IsOwned(p) => OnDisk(p) /\ \E j \in 1 .. 3 : p \in OwnedPaths[SyntaxKinds[j]]
    BY <1>4 DEF IsOwned
  <2>2. QED
    BY <1>1, <2>1 DEF SyntaxSaid, c
<1>9. QED
  BY <1>7, <1>8 DEF c, Twice

(* binding.py:51, wave_names.py:142, syntax_gate.py:202: however many files*)
(* there are and however often the tree is edited while it is read, every  *)
(* report is exact about the files nobody touched.                         *)
THEOREM ReportsAreExact == DocumentsSpec => []ReportsWhatStands
<1>1. DocumentsInit => ReadersInv
  <2>1. DocumentsInit => /\ TreeTyped /\ reader = "none" /\ stage \in {"idle", "standing"}
    <3>1. [q \in AllPaths |-> CHOOSE c \in Writable[q] : TRUE] \in [AllPaths -> FileContents]
      BY TreeAssumption
    <3>2. QED
      BY <3>1, TreeAssumption DEF DocumentsInit, TreeStands, ReadersInit, TreeTyped
  <2>2. TreeTyped /\ reader = "none" /\ stage \in {"idle", "standing"} => ReadersInv
    BY KindsAreThree
    DEF ReadersInv, BindingSoFar, ArtifactsSoFar, IndexSoFar, IndexStands, NumbersSoFar, SyntaxSoFar
  <2>3. QED
    BY <2>1, <2>2
<1>2. ReadersInv /\ [DocumentsNext]_document_vars => ReadersInv'
  BY ReadersKeep DEF DocumentsNext, document_vars
<1>3. ReadersInv => ReportsWhatStands
  BY BindingIsTrue, ArtifactsAreTrue, NumbersAreTrue, SyntaxIsTrue
  DEF ReportsWhatStands, ReadersInv, IndexSoFar
<1>4. QED
  BY <1>1, <1>2, <1>3, PTL DEF DocumentsSpec

-----------------------------------------------------------------------------
(* The prompt stacks                                                       *)

PromptTree == [registry: Registries, bodies: [Files -> Contents]]

LoadedStack ==
  [loaded: BOOLEAN, version: {"", "0.1.0", "0.1.1"}, body_sha256: {""} \cup Contents,
   depends_on: SUBSET Ids, required_roles: SUBSET VALID_ROLES]

PromptsTyped ==
  /\ registry \in Registries /\ bodies \in [Files -> Contents] /\ saw \subseteq PromptTree
  /\ pc \in {"standing", "idle", "load_stacks", "find_body", "read_body", "envelope", "policy"}
  /\ kind \in {"assemble", "validate"}
  /\ stacks \in [Ids -> LoadedStack]
  /\ request.ids \in Seq(Ids)

(* A binding has the fields of an assembled prompt, whatever it was        *)
(* changed to.                                                             *)
BindingTyped ==
  /\ binding = [shape |-> binding.shape, prompt |-> binding.prompt,
                assembled_prompt_digest |-> binding.assembled_prompt_digest]
  /\ binding.shape \in {"whole", "absent", "short", "no_ids", "no_stale_on"}
  /\ binding.prompt =
       [role |-> binding.prompt.role, stack_ids |-> binding.prompt.stack_ids,
        stack_versions |-> binding.prompt.stack_versions,
        stack_digests |-> binding.prompt.stack_digests,
        stack_releases |-> binding.prompt.stack_releases,
        registry_sha256 |-> binding.prompt.registry_sha256,
        policy |-> binding.prompt.policy, wave_context |-> binding.prompt.wave_context]
  /\ binding.prompt.stack_ids \in Seq(Ids)

(* What load_stacks asks of an entry, in the tree t.                       *)
ItemLoads(t, item) ==
  /\ item.id \in Ids /\ item.unlisted = {}
  /\ BodyOf(t.bodies, item) \notin {"absent", "torn"}
  /\ item.declared # "none" => item.declared = canonical_stack_body(BodyOf(t.bodies, item))
  /\ item.required_roles \subseteq VALID_ROLES

(* What was loaded of an id is what its last entry says, of one of the     *)
(* trees there have been.                                                  *)
IsLoadedFrom(item) ==
  /\ stacks[item.id].version = item.version
  /\ stacks[item.id].depends_on = item.depends_on
  /\ stacks[item.id].required_roles = item.required_roles
  /\ \E u \in saw : /\ ItemLoads(u, item)
                    /\ stacks[item.id].body_sha256 = canonical_stack_body(BodyOf(u.bodies, item))

LoadedSoFar ==
  /\ "stacks" \in listed.readable /\ \E t \in saw : t.registry = listed
  /\ next \in 1 .. Len(listed.stacks) + 1
  /\ \A id \in Ids :
       stacks[id].loaded <=> \E i \in 1 .. next - 1 : listed.stacks[i].id = id
  /\ \A i \in 1 .. next - 1 : \E u \in saw : ItemLoads(u, listed.stacks[i])
  /\ \A i \in 1 .. next - 1 :
       (\A j \in 1 .. next - 1 : listed.stacks[j].id = listed.stacks[i].id => j <= i) =>
         IsLoadedFrom(listed.stacks[i])

CallStands ==
  /\ pc # "idle" => Tree \in saw
  /\ pc \in {"standing", "idle", "load_stacks"} => next = 1 /\ stacks = NothingLoaded
  /\ pc \in {"load_stacks", "find_body", "read_body", "envelope", "policy"} =>
       /\ request.ids # <<>> /\ request.wave_context # "none"
       /\ kind = "validate" => binding.shape \in {"whole", "no_stale_on"} /\ request = BindingRequest
  /\ pc \in {"find_body", "read_body", "envelope", "policy"} => LoadedSoFar
  /\ pc = "read_body" =>
       /\ next <= Len(listed.stacks) /\ Item.id # "missing"
       /\ \E u \in saw : BodyOf(u.bodies, Item) # "absent"
  /\ pc \in {"envelope", "policy"} => next = Len(listed.stacks) + 1
  /\ pc = "policy" =>
       /\ request.role \in VALID_ROLES
       /\ \E u \in saw : "role_taxonomy" \in u.registry.readable /\ Composable(u.registry.envelope[request.role])

(* Of a call during which the tree was t and nothing else: AcceptedIffCurrent *)
(* says this of t = Tree only, which an edit after the call changes.       *)
AcceptedIfSo ==
  pc = "idle" /\ kind = "validate" /\ result \in {"valid", "invalid"} =>
    \A t \in saw : saw = {t} =>
      (result = "valid" <=>
         binding.shape = "whole" /\ Composes(t, request) /\ binding = Composition(t, request))

PromptsInv ==
  /\ PromptsTyped /\ BindingTyped /\ CallStands
  /\ StacksFromOneRegistry /\ EscapesOnlyOnDamage /\ AcceptedIfSo

(* The entry of an id is the last one that has it.                         *)
LEMMA EntryIsTheLast ==
  ASSUME NEW r, r.stacks \in Seq(Items), NEW id, Lists(r, id)
  PROVE  \E i \in 1 .. Len(r.stacks) :
           /\ Entry(r, id) = r.stacks[i] /\ r.stacks[i].id = id
           /\ \A j \in 1 .. Len(r.stacks) : r.stacks[j].id = id => j <= i
<1> DEFINE n == Len(r.stacks)
           at == {i \in 1 .. n : r.stacks[i].id = id}
           IsLast(i) == i \in at /\ \A j \in at : j <= i
           IsEntry(item) == \E i \in DOMAIN r.stacks :
             /\ r.stacks[i] = item /\ item.id = id
             /\ \A j \in DOMAIN r.stacks : r.stacks[j].id = id => j <= i
<1>1. n \in Nat /\ DOMAIN r.stacks = 1 .. n
  OBVIOUS
<1>2. \E i \in at : IsLast(i)
  <2> DEFINE T == {n - i : i \in at}
  <2>1. T \subseteq Nat /\ T # {}
    <3>1. PICK k \in 1 .. n : r.stacks[k].id = id
      BY <1>1 DEF Lists, ToSet
    <3>2. n - k \in T
      BY <3>1
    <3>3. \A i \in 1 .. n : n - i \in Nat
      BY <1>1
    <3>4. QED
      BY <3>2, <3>3
  <2> HIDE DEF T
  <2>2. PICK m \in T : \A k \in T : m <= k
    BY <2>1, Least
  <2>3. PICK i \in at : m = n - i
    BY <2>2 DEF T
  <2>4. \A j \in at : n - j \in T
    BY DEF T
  <2>5. \A j \in at : j <= i
    BY <1>1, <2>2, <2>3, <2>4
  <2>6. QED
    BY <2>5
<1>3. PICK i \in 1 .. n : IsLast(i)
  BY <1>2
<1>4. IsEntry(r.stacks[i]) /\ r.stacks[i] \in ToSet(r.stacks)
  BY <1>1, <1>3 DEF ToSet
<1>5. IsEntry(Entry(r, id))
  <2>1. Entry(r, id) = CHOOSE item \in ToSet(r.stacks) : IsEntry(item)
    BY DEF Entry
  <2> HIDE DEF IsEntry
  <2>2. QED
    BY <1>4, <2>1
<1>6. PICK k \in 1 .. n : /\ r.stacks[k] = Entry(r, id) /\ r.stacks[k].id = id
                          /\ \A j \in 1 .. n : r.stacks[j].id = id => j <= k
  BY <1>1, <1>5
<1>7. QED
  BY <1>6

LEMMA RegistriesAreTyped ==
  /\ \A t \in PromptTree : IsRegistry(t.registry) /\ t.bodies \in [Files -> Contents]
  /\ \A r : IsRegistry(r) => r.stacks \in Seq(Items) /\ r.envelope \in [VALID_ROLES -> SUBSET Ids]
  BY PromptStacksAssumption DEF PromptTree, IsRegistry

(* A longer history loads no less.                                         *)
LEMMA MoreIsSeen ==
  ASSUME LoadedSoFar, UNCHANGED <<listed, next, stacks>>, saw \subseteq saw'
  PROVE  LoadedSoFar'
<1>1. \A item : IsLoadedFrom(item) => IsLoadedFrom(item)'
  BY DEF IsLoadedFrom
<1>2. QED
  BY <1>1 DEF LoadedSoFar

(* When the list is done, what is loaded is what the registry says.        *)
LEMMA AllAreLoaded ==
  ASSUME LoadedSoFar, saw \subseteq PromptTree, next = Len(listed.stacks) + 1, NEW id \in Ids
  PROVE  /\ stacks[id].loaded <=> Lists(listed, id)
         /\ Lists(listed, id) => /\ Entry(listed, id) \in Items /\ Entry(listed, id).id = id
                                 /\ IsLoadedFrom(Entry(listed, id))
<1>1. listed.stacks \in Seq(Items)
  BY RegistriesAreTyped DEF LoadedSoFar
<1>2. /\ DOMAIN listed.stacks = 1 .. Len(listed.stacks) /\ Len(listed.stacks) \in Nat
      /\ next - 1 = Len(listed.stacks)
  BY <1>1
<1>3. Lists(listed, id) <=> \E i \in 1 .. Len(listed.stacks) : listed.stacks[i].id = id
  BY <1>2 DEF Lists, ToSet
<1>4. stacks[id].loaded <=> \E i \in 1 .. Len(listed.stacks) : listed.stacks[i].id = id
  BY <1>2 DEF LoadedSoFar
<1>5. ASSUME Lists(listed, id)
      PROVE  /\ Entry(listed, id) \in Items /\ Entry(listed, id).id = id
             /\ IsLoadedFrom(Entry(listed, id))
  <2>1. PICK i \in 1 .. Len(listed.stacks) :
          /\ Entry(listed, id) = listed.stacks[i] /\ listed.stacks[i].id = id
          /\ \A j \in 1 .. Len(listed.stacks) : listed.stacks[j].id = id => j <= i
    BY <1>1, <1>5, EntryIsTheLast
  <2>2. IsLoadedFrom(listed.stacks[i])
    BY <1>2, <2>1 DEF LoadedSoFar
  <2>3. QED
    BY <1>1, <2>1, <2>2
<1>6. QED
  BY <1>3, <1>4, <1>5

(* The loop over the requested ids asks what the registry asks.            *)
LEMMA ComposableIsPermitted ==
  ASSUME LoadedSoFar, saw \subseteq PromptTree, next = Len(listed.stacks) + 1,
         request.ids \in Seq(Ids), NEW allowed
  PROVE  Composable(allowed) <=>
           /\ Range(request.ids) \subseteq allowed
           /\ \A id \in Range(request.ids) :
                Lists(listed, id) /\ request.role \in Entry(listed, id).required_roles
           /\ Ordered(listed, request.ids)
<1> DEFINE ids == request.ids
           Fits(i) == /\ stacks[ids[i]].loaded
                      /\ ids[i] \in allowed /\ request.role \in stacks[ids[i]].required_roles
                      /\ stacks[ids[i]].depends_on \subseteq {ids[j] : j \in 1 .. i}
           Suits(i) == /\ ids[i] \in allowed
                       /\ Lists(listed, ids[i])
                       /\ request.role \in Entry(listed, ids[i]).required_roles
                       /\ \A dep \in Ids : dep \in Entry(listed, ids[i]).depends_on =>
                                             \E j \in 1 .. i : ids[j] = dep
<1>1. Composable(allowed) <=> IsInjective(ids) /\ \A i \in DOMAIN ids : Fits(i)
  BY DEF Composable
<1>2. (/\ Range(request.ids) \subseteq allowed
       /\ \A id \in Range(request.ids) :
            Lists(listed, id) /\ request.role \in Entry(listed, id).required_roles
       /\ Ordered(listed, request.ids))
      <=> IsInjective(ids) /\ \A i \in DOMAIN ids : Suits(i)
  BY DEF Range, Ordered, IsInjective
<1>3. ASSUME NEW i \in DOMAIN ids PROVE Fits(i) <=> Suits(i)
  <2>1. ids[i] \in Ids
    OBVIOUS
  <2>2. stacks[ids[i]].loaded <=> Lists(listed, ids[i])
    BY <2>1, AllAreLoaded
  <2>3. CASE Lists(listed, ids[i])
    <3>1. /\ Entry(listed, ids[i]) \in Items
          /\ stacks[ids[i]].depends_on = Entry(listed, ids[i]).depends_on
          /\ stacks[ids[i]].required_roles = Entry(listed, ids[i]).required_roles
      BY <2>1, <2>3, AllAreLoaded DEF IsLoadedFrom
    <3>2. Entry(listed, ids[i]).depends_on \subseteq Ids
      BY <3>1 DEF Items
    <3>3. QED
      BY <2>2, <2>3, <3>1, <3>2
  <2>4. CASE ~Lists(listed, ids[i])
    BY <2>2, <2>4
  <2>5. QED
    BY <2>3, <2>4
<1>4. QED
  BY <1>1, <1>2, <1>3

(* A call that saw one tree only has loaded what that tree composes to.    *)
LEMMA QuietIsComposed ==
  ASSUME PromptsTyped, LoadedSoFar, next = Len(listed.stacks) + 1, NEW t, saw = {t}
  PROVE  /\ t.registry = listed /\ Loads(t)
         /\ Permits(listed, request.ids, request.role) /\ Ordered(listed, request.ids)
              <=> request.role \in VALID_ROLES /\ Composable(listed.envelope[request.role])
<1>1. t.registry = listed /\ "stacks" \in listed.readable /\ saw \subseteq PromptTree /\ request.ids \in Seq(Ids)
  BY DEF LoadedSoFar, PromptsTyped
<1>2. Loads(t)
  <2>1. listed.stacks \in Seq(Items)
    BY <1>1, RegistriesAreTyped
  <2>2. DOMAIN listed.stacks = 1 .. next - 1
    BY <2>1
  <2>3. \A i \in 1 .. next - 1 : ItemLoads(t, listed.stacks[i])
    BY DEF LoadedSoFar
  <2>4. \A item \in ToSet(listed.stacks) : ItemLoads(t, item)
    BY <2>2, <2>3 DEF ToSet
  <2>5. QED
    BY <1>1, <2>4 DEF Loads, ItemLoads
<1>3. QED
  BY <1>1, <1>2, ComposableIsPermitted DEF Permits

LEMMA QuietComposition ==
  ASSUME PromptsTyped, LoadedSoFar, next = Len(listed.stacks) + 1, NEW t, saw = {t},
         \A id \in Range(request.ids) : Lists(listed, id)
  PROVE  AssembledPrompt(request, stacks, listed) = Composition(t, request)
<1>1. t.registry = listed /\ saw \subseteq PromptTree
  BY DEF LoadedSoFar, PromptsTyped
<1> DEFINE composed == [id \in Ids |->
             IF Lists(t.registry, id)
               THEN LET e == Entry(t.registry, id) IN
                    [loaded |-> TRUE, version |-> e.version,
                     body_sha256 |-> canonical_stack_body(BodyOf(t.bodies, e)),
                     depends_on |-> e.depends_on, required_roles |-> e.required_roles]
               ELSE Unloaded]
<1>2. ASSUME NEW id \in Range(request.ids)
      PROVE  /\ stacks[id].version = composed[id].version
             /\ stacks[id].body_sha256 = composed[id].body_sha256
  <2>1. id \in Ids
    BY DEF PromptsTyped, Range
  <2>2. IsLoadedFrom(Entry(listed, id)) /\ Entry(listed, id).id = id
    BY <1>1, <1>2, <2>1, AllAreLoaded
  <2>3. /\ stacks[id].version = Entry(listed, id).version
        /\ stacks[id].body_sha256 = canonical_stack_body(BodyOf(t.bodies, Entry(listed, id)))
    BY <2>2 DEF IsLoadedFrom
  <2>4. Lists(listed, id)
    BY <1>2
  <2>5. QED
    BY <1>1, <2>1, <2>3, <2>4
<1> HIDE DEF composed
<1>3. Metadata(request, stacks, listed) = Metadata(request, composed, listed)
  BY <1>2 DEF Metadata
<1>4. Composition(t, request) = AssembledPrompt(request, composed, listed)
  BY <1>1 DEF Composition, composed
<1>5. QED
  BY <1>3, <1>4 DEF AssembledPrompt

(* What excuses an exception that nobody catches.                          *)
Damage ==
  \/ kind = "validate" /\ binding.shape \in {"no_ids", "no_stale_on"}
  \/ \E t \in saw : ~Shapely(t.registry) \/ \E f \in Files : t.bodies[f] = "torn"
  \/ \E t, u \in saw, f \in Files : t.bodies[f] = "absent" /\ u.bodies[f] # "absent"

(* How a call that is refused, or stopped, leaves things.                  *)
LEMMA EndsWell ==
  ASSUME PromptsTyped', BindingTyped', NEW r, Ends(r), r \in {"refused", "invalid", "escaped"},
         r = "escaped" => Damage',
         kind' = "validate" /\ r = "invalid" =>
           \A t \in saw' : saw' = {t} =>
             ~(binding.shape = "whole" /\ Composes(t, request) /\ binding = Composition(t, request))'
  PROVE  PromptsInv'
<1>1. pc' = "idle" /\ result' = r /\ next' = 1 /\ stacks' = NothingLoaded
  BY DEF Ends
<1>2. CallStands'
  BY <1>1 DEF CallStands
<1>3. StacksFromOneRegistry' /\ EscapesOnlyOnDamage'
  BY <1>1 DEF StacksFromOneRegistry, EscapesOnlyOnDamage, Damage
<1>4. AcceptedIfSo'
  BY <1>1 DEF AcceptedIfSo
<1>5. QED
  BY <1>2, <1>3, <1>4 DEF PromptsInv

(* A call that goes on has no result to answer for.                        *)
LEMMA GoesOnWell ==
  ASSUME PromptsTyped', BindingTyped', CallStands', pc' # "idle" \/ result' = "none"
  PROVE  PromptsInv'
  BY DEF PromptsInv, StacksFromOneRegistry, EscapesOnlyOnDamage, AcceptedIfSo

LEMMA TreesAreTyped ==
  ASSUME PromptsTyped
  PROVE  Tree \in PromptTree /\ NothingLoaded \in [Ids -> LoadedStack]
  BY DEF PromptsTyped, PromptTree, Tree, NothingLoaded, Unloaded, LoadedStack

LEMMA EditsKeepPrompts ==
  ASSUME PromptsInv, EditRegistry \/ EditBody
  PROVE  PromptsInv'
<1>1. /\ UNCHANGED <<pc, call, result, binding>>
      /\ saw' = IF pc = "idle" THEN saw ELSE saw \cup {Tree'}
      /\ registry' \in Registries /\ bodies' \in [Files -> Contents]
  <2>1. CASE EditRegistry
    BY <2>1 DEF EditRegistry, Edited, PromptsInv, PromptsTyped
  <2>2. CASE EditBody
    <3>1. PICK f \in Files : \E c \in Held[f] : bodies' = [bodies EXCEPT ![f] = c]
      BY <2>2 DEF EditBody
    <3>2. PICK c \in Held[f] : bodies' = [bodies EXCEPT ![f] = c]
      BY <3>1
    <3>3. c \in Contents
      BY PromptStacksAssumption
    <3>4. QED
      BY <2>2, <3>2, <3>3 DEF EditBody, Edited, PromptsInv, PromptsTyped
  <2>3. QED
    BY <2>1, <2>2
<1>2. UNCHANGED <<kind, request, listed, next, stacks>> /\ saw \subseteq saw'
  BY <1>1 DEF call
<1>3. PromptsTyped'
  BY <1>1, <1>2 DEF PromptsInv, PromptsTyped, PromptTree, Tree
<1>4. BindingTyped'
  BY <1>1 DEF PromptsInv, BindingTyped
<1>5. CASE pc = "idle"
  <2>1. saw' = saw
    BY <1>1, <1>5
  <2>2. CallStands'
    BY <1>1, <1>2, <1>5 DEF PromptsInv, CallStands
  <2>3. StacksFromOneRegistry' /\ EscapesOnlyOnDamage'
    BY <1>1, <1>2, <2>1 DEF PromptsInv, StacksFromOneRegistry, EscapesOnlyOnDamage
  <2>4. AcceptedIfSo'
    BY <1>1, <1>2, <2>1 DEF PromptsInv, AcceptedIfSo
  <2>5. QED
    BY <1>3, <1>4, <2>2, <2>3, <2>4 DEF PromptsInv
<1>6. CASE pc # "idle"
  <2>1. Tree' \in saw'
    BY <1>1, <1>6
  <2>2. LoadedSoFar => LoadedSoFar'
    BY <1>2, MoreIsSeen
  <2>3. \A allowed : Composable(allowed) => Composable(allowed)'
    BY <1>2 DEF Composable
  <2>4. CallStands'
    BY <1>1, <1>2, <1>6, <2>1, <2>2, <2>3 DEF PromptsInv, CallStands, BindingRequest, Item
  <2>5. QED
    BY <1>1, <1>3, <1>4, <1>6, <2>4, GoesOnWell
<1>7. QED
  BY <1>5, <1>6

LEMMA HandoffKeepsPrompts ==
  ASSUME PromptsInv, Handoff
  PROVE  PromptsInv'
<1>1. PICK q \in Requests :
        /\ pc = "idle" /\ kind' = "assemble" /\ request' = q /\ saw' = {Tree}
        /\ UNCHANGED <<registry, bodies, binding>>
        /\ IF q.ids = <<>> \/ q.wave_context = "none" THEN Refused
           ELSE Proceeds("load_stacks") /\ Keeps
  BY DEF Handoff, Starts, tree
<1>2. Tree' = Tree /\ Tree \in PromptTree /\ NothingLoaded \in [Ids -> LoadedStack]
  BY <1>1, TreesAreTyped DEF Tree, PromptsInv
<1>3. BindingTyped'
  BY <1>1 DEF PromptsInv, BindingTyped
<1>4. next = 1 /\ stacks = NothingLoaded /\ q.ids \in Seq(Ids)
  BY <1>1, PromptStacksAssumption DEF PromptsInv, CallStands
<1>5. CASE q.ids = <<>> \/ q.wave_context = "none"
  <2>1. Ends("refused")
    BY <1>1, <1>5 DEF Refused
  <2>2. PromptsTyped'
    BY <1>1, <1>2, <1>4, <2>1 DEF PromptsInv, PromptsTyped, Ends
  <2>3. QED
    BY <1>1, <1>3, <2>1, <2>2, EndsWell
<1>6. CASE ~(q.ids = <<>> \/ q.wave_context = "none")
  <2>1. pc' = "load_stacks" /\ result' = "none" /\ UNCHANGED <<listed, next, stacks>>
    BY <1>1, <1>6 DEF Proceeds, Keeps
  <2>2. PromptsTyped'
    BY <1>1, <1>2, <1>4, <2>1 DEF PromptsInv, PromptsTyped
  <2>3. CallStands'
    BY <1>1, <1>2, <1>4, <1>6, <2>1 DEF CallStands
  <2>4. QED
    BY <1>3, <2>1, <2>2, <2>3, GoesOnWell
<1>7. QED
  BY <1>5, <1>6

LEMMA ValidateKeepsPrompts ==
  ASSUME PromptsInv, Validate
  PROVE  PromptsInv'
<1>1. /\ pc = "idle" /\ kind' = "validate" /\ request' = BindingRequest /\ saw' = {Tree}
      /\ UNCHANGED <<registry, bodies, binding>>
  BY DEF Validate, Starts, tree
<1>2. Tree' = Tree /\ Tree \in PromptTree /\ NothingLoaded \in [Ids -> LoadedStack]
  BY <1>1, TreesAreTyped DEF Tree, PromptsInv
<1>3. BindingTyped' /\ BindingRequest' = BindingRequest
  BY <1>1 DEF PromptsInv, BindingTyped, BindingRequest
<1>4. next = 1 /\ stacks = NothingLoaded /\ BindingRequest.ids \in Seq(Ids)
  BY <1>1 DEF PromptsInv, CallStands, BindingTyped, BindingRequest
<1>5. ASSUME NEW r, Ends(r) PROVE PromptsTyped'
  BY <1>1, <1>2, <1>4, <1>5 DEF PromptsInv, PromptsTyped, Ends
<1>6. CASE binding.shape \in {"absent", "short"}
  <2>1. Ends("invalid")
    BY <1>1, <1>6 DEF Validate, Refused
  <2>2. QED
    BY <1>1, <1>3, <1>5, <1>6, <2>1, EndsWell
<1>7. CASE binding.shape = "no_ids"
  <2>1. Ends("escaped")
    BY <1>1, <1>7 DEF Validate, Escapes
  <2>2. Damage'
    BY <1>1, <1>7 DEF Damage
  <2>3. QED
    BY <1>1, <1>3, <1>5, <2>1, <2>2, EndsWell
<1>8. CASE /\ binding.shape \in {"whole", "no_stale_on"}
           /\ ~(require_binding_wave_context /\ binding.prompt.stack_ids # <<>>)
  <2>1. Ends("invalid")
    BY <1>1, <1>8 DEF Validate, Refused
  <2>2. \A t : ~Composes(t, BindingRequest)
    BY <1>8 DEF Composes, require_binding_wave_context, BindingRequest
  <2>3. \A t : ~Composes(t, request)'
    BY <1>1, <2>2
  <2>4. QED
    BY <1>1, <1>3, <1>5, <2>1, <2>3, EndsWell
<1>9. CASE /\ binding.shape \in {"whole", "no_stale_on"}
           /\ require_binding_wave_context /\ binding.prompt.stack_ids # <<>>
  <2>1. pc' = "load_stacks" /\ result' = "none" /\ UNCHANGED <<listed, next, stacks>>
    BY <1>9 DEF Validate, Proceeds, Keeps
  <2>2. PromptsTyped'
    BY <1>1, <1>2, <1>4, <2>1 DEF PromptsInv, PromptsTyped
  <2>3. request'.ids # <<>> /\ request'.wave_context # "none"
    BY <1>1, <1>9 DEF require_binding_wave_context, BindingRequest
  <2>4. CallStands'
    BY <1>1, <1>2, <1>3, <1>4, <1>9, <2>1, <2>3 DEF CallStands
  <2>5. QED
    BY <1>3, <2>1, <2>2, <2>4, GoesOnWell
<1>10. QED
  BY <1>6, <1>7, <1>8, <1>9 DEF PromptsInv, BindingTyped

(* Of a tree that stands still, what does not load does not compose.       *)
LEMMA UnloadedIsRefused ==
  ASSUME PromptsTyped, LoadedSoFar, next <= Len(listed.stacks), NEW t, saw = {t},
         ~ItemLoads(t, Item), NEW q
  PROVE  ~Composes(t, q)
<1>1. t.registry = listed /\ listed.stacks \in Seq(Items) /\ next \in 1 .. Len(listed.stacks)
  BY RegistriesAreTyped DEF LoadedSoFar, PromptsTyped
<1>2. Item \in ToSet(t.registry.stacks)
  BY <1>1 DEF Item, ToSet
<1>3. QED
  BY <1>2 DEF Composes, Loads, ItemLoads

(* What a read leaves as it is.                                            *)
LEMMA ReadsKeepTypes ==
  ASSUME PromptsInv, pc # "idle", ReadsOn
  PROVE  /\ BindingTyped' /\ Tree \in saw /\ Tree' = Tree /\ Tree \in PromptTree
         /\ UNCHANGED <<registry, bodies, kind, request, binding, saw>>
         /\ \A r : Ends(r) => PromptsTyped'
<1>1. UNCHANGED <<registry, bodies, kind, request, binding, saw>>
  BY DEF ReadsOn, tree
<1>2. BindingTyped' /\ Tree' = Tree
  BY <1>1 DEF PromptsInv, BindingTyped, Tree
<1>3. Tree \in saw /\ Tree \in PromptTree /\ NothingLoaded \in [Ids -> LoadedStack]
  BY TreesAreTyped DEF PromptsInv, CallStands
<1>4. QED
  BY <1>1, <1>2, <1>3 DEF PromptsInv, PromptsTyped, Ends

LEMMA RegistryReadKeepsPrompts ==
  ASSUME PromptsInv, LoadRegistry
  PROVE  PromptsInv'
<1>1. pc = "load_stacks" /\ ReadsOn
  BY DEF LoadRegistry
<1>2. /\ BindingTyped' /\ Tree \in saw /\ Tree' = Tree /\ Tree \in PromptTree
      /\ UNCHANGED <<registry, bodies, kind, request, binding, saw>>
      /\ \A r : Ends(r) => PromptsTyped'
  BY <1>1, ReadsKeepTypes
<1>3. CASE "stacks" \notin registry.readable
  <2>1. Ends("escaped")
    BY <1>3 DEF LoadRegistry, Escapes
  <2>2. Damage'
    BY <1>2, <1>3 DEF Damage, Shapely, Parts, Tree
  <2>3. QED
    BY <1>2, <2>1, <2>2, EndsWell
<1>4. CASE "stacks" \in registry.readable
  <2>1. /\ listed' = registry /\ pc' = "find_body" /\ result' = "none"
        /\ UNCHANGED <<next, stacks>>
    BY <1>4 DEF LoadRegistry, Proceeds
  <2>2. next = 1 /\ stacks = NothingLoaded
    BY <1>1 DEF PromptsInv, CallStands
  <2>3. PromptsTyped'
    BY <1>2, <2>1 DEF PromptsInv, PromptsTyped
  <2>4. LoadedSoFar'
    <3>1. "stacks" \in listed'.readable /\ \E t \in saw' : t.registry = listed'
      BY <1>2, <1>4, <2>1 DEF Tree
    <3>2. Len(listed'.stacks) \in Nat
      BY <1>2, <2>1, RegistriesAreTyped DEF Tree
    <3>3. next' = 1 /\ \A id \in Ids : ~stacks'[id].loaded
      BY <2>1, <2>2 DEF NothingLoaded, Unloaded
    <3>4. 1 .. next' - 1 = {}
      BY <3>3
    <3>5. next' \in 1 .. Len(listed'.stacks) + 1
      BY <3>2, <3>3
    <3>6. QED
      BY <3>1, <3>3, <3>4, <3>5 DEF LoadedSoFar
  <2>5. CallStands'
    <3>1. /\ request.ids # <<>> /\ request.wave_context # "none"
          /\ kind = "validate" => binding.shape \in {"whole", "no_stale_on"} /\ request = BindingRequest
      BY <1>1 DEF PromptsInv, CallStands
    <3>2. QED
      BY <1>2, <2>1, <2>4, <3>1 DEF CallStands, BindingRequest
  <2>6. QED
    BY <1>2, <2>1, <2>3, <2>5, GoesOnWell
<1>5. QED
  BY <1>3, <1>4

LEMMA FindBodyKeepsPrompts ==
  ASSUME PromptsInv, FindBody
  PROVE  PromptsInv'
<1>1. pc = "find_body" /\ ReadsOn
  BY DEF FindBody
<1>2. /\ BindingTyped' /\ Tree \in saw /\ Tree' = Tree /\ Tree \in PromptTree
      /\ UNCHANGED <<registry, bodies, kind, request, binding, saw>>
      /\ \A r : Ends(r) => PromptsTyped'
  BY <1>1, ReadsKeepTypes
<1>3. /\ PromptsTyped /\ LoadedSoFar
      /\ request.ids # <<>> /\ request.wave_context # "none"
      /\ kind = "validate" => binding.shape \in {"whole", "no_stale_on"} /\ request = BindingRequest
  BY <1>1 DEF PromptsInv, CallStands
<1>4. ASSUME pc' \in {"read_body", "envelope"}, result' = "none", Keeps
      PROVE  PromptsTyped' /\ LoadedSoFar' /\ Item' = Item
  <2>1. UNCHANGED <<listed, next, stacks>>
    BY <1>4 DEF Keeps
  <2>2. PromptsTyped'
    BY <1>2, <1>3, <1>4, <2>1 DEF PromptsTyped
  <2>3. LoadedSoFar'
    BY <1>2, <1>3, <2>1, MoreIsSeen
  <2>4. QED
    BY <2>1, <2>2, <2>3 DEF Item
<1>5. CASE next > Len(listed.stacks)
  <2>1. pc' = "envelope" /\ result' = "none" /\ Keeps
    BY <1>5 DEF FindBody, Proceeds
  <2>2. UNCHANGED <<listed, next, stacks>> /\ next = Len(listed.stacks) + 1
    <3>1. Len(listed.stacks) \in Nat /\ next \in 1 .. Len(listed.stacks) + 1
      BY <1>3, RegistriesAreTyped DEF LoadedSoFar, PromptsTyped
    <3>2. QED
      BY <1>5, <2>1, <3>1 DEF Keeps
  <2>3. CallStands'
    BY <1>2, <1>3, <1>4, <2>1, <2>2 DEF CallStands, BindingRequest
  <2>4. QED
    BY <1>2, <1>4, <2>1, <2>3, GoesOnWell
<1>6. CASE next <= Len(listed.stacks) /\ Findable(Item)
  <2>1. pc' = "read_body" /\ result' = "none" /\ Keeps
    <3>1. ~(next > Len(listed.stacks))
      BY <1>3, <1>6, RegistriesAreTyped DEF LoadedSoFar, PromptsTyped
    <3>2. QED
      BY <1>6, <3>1 DEF FindBody, Proceeds
  <2>2. UNCHANGED <<listed, next, stacks>>
    BY <2>1 DEF Keeps
  <2>3. Item.id # "missing" /\ BodyOf(Tree.bodies, Item) # "absent"
    BY <1>6 DEF Findable, Tree
  <2>4. CallStands'
    BY <1>2, <1>3, <1>4, <1>6, <2>1, <2>2, <2>3 DEF CallStands, BindingRequest
  <2>5. QED
    BY <1>2, <1>4, <2>1, <2>4, GoesOnWell
<1>7. CASE next <= Len(listed.stacks) /\ ~Findable(Item)
  <2>1. Refused
    <3>1. ~(next > Len(listed.stacks))
      BY <1>3, <1>7, RegistriesAreTyped DEF LoadedSoFar, PromptsTyped
    <3>2. QED
      BY <1>7, <3>1 DEF FindBody
  <2>2. ~ItemLoads(Tree, Item)
    BY <1>7, PromptStacksAssumption DEF Findable, ItemLoads, Tree
  <2>3. \A t \in saw : saw = {t} => ~Composes(t, request)
    BY <1>2, <1>3, <1>7, <2>2, UnloadedIsRefused
  <2>4. \A t \in saw' : saw' = {t} => ~Composes(t, request)'
    BY <1>2, <2>3
  <2>5. QED
    BY <1>2, <2>1, <2>4, EndsWell DEF Refused
<1>8. QED
  <2>1. next > Len(listed.stacks) \/ next <= Len(listed.stacks)
    BY <1>3, RegistriesAreTyped DEF LoadedSoFar, PromptsTyped
  <2>2. QED
    BY <1>5, <1>6, <1>7, <2>1

LEMMA BodyReadKeepsPrompts ==
  ASSUME PromptsInv, ReadBody
  PROVE  PromptsInv'
<1> DEFINE item == Item
           content == BodyOf(bodies, item)
           digest == canonical_stack_body(content)
           agrees == enforce_declared_body_digest(item.declared, digest)
           entered == [loaded |-> TRUE, version |-> item.version, body_sha256 |-> digest,
                       depends_on |-> item.depends_on, required_roles |-> item.required_roles]
<1>1. pc = "read_body" /\ ReadsOn
  BY DEF ReadBody
<1>2. /\ BindingTyped' /\ Tree \in saw /\ Tree' = Tree /\ Tree \in PromptTree
      /\ UNCHANGED <<registry, bodies, kind, request, binding, saw>>
      /\ \A r : Ends(r) => PromptsTyped'
  BY <1>1, ReadsKeepTypes
<1>3. /\ PromptsTyped /\ LoadedSoFar
      /\ request.ids # <<>> /\ request.wave_context # "none"
      /\ kind = "validate" => binding.shape \in {"whole", "no_stale_on"} /\ request = BindingRequest
      /\ next <= Len(listed.stacks) /\ item.id # "missing"
      /\ \E u \in saw : BodyOf(u.bodies, item) # "absent"
  BY <1>1 DEF PromptsInv, CallStands
<1>4. /\ listed.stacks \in Seq(Items) /\ next \in 1 .. Len(listed.stacks)
      /\ item = listed.stacks[next] /\ item \in Items /\ item.id \in Ids
  <2>1. listed.stacks \in Seq(Items) /\ next \in 1 .. Len(listed.stacks)
    BY <1>3, RegistriesAreTyped DEF LoadedSoFar, PromptsTyped
  <2>2. item = listed.stacks[next] /\ item \in Items
    BY <2>1 DEF Item
  <2>3. QED
    BY <1>3, <2>1, <2>2 DEF Items
<1>5. /\ content \in Contents /\ content = BodyOf(Tree.bodies, item)
      /\ item.file = "none" => content = "torn"
      /\ item.file # "none" => /\ item.file \in Files
                               /\ \A t : BodyOf(t.bodies, item) = t.bodies[item.file]
  BY <1>3, <1>4 DEF Items, PromptsTyped, BodyOf, Contents, Tree
<1>6. CASE content \in {"absent", "torn"} \/ (agrees /\ IterationRaises(item))
  <2>1. Ends("escaped")
    BY <1>6 DEF ReadBody, Escapes
  <2>2. CASE item.file = "none" \/ item.unlisted # {}
    <3>1. PICK t \in saw : t.registry = listed
      BY <1>3 DEF LoadedSoFar
    <3>2. ~Shapely(t.registry)
      BY <1>4, <2>2, <3>1 DEF Shapely
    <3>3. Damage'
      BY <1>2, <3>1, <3>2 DEF Damage
    <3>4. QED
      BY <1>2, <2>1, <3>3, EndsWell
  <2>3. CASE item.file # "none" /\ item.unlisted = {}
    <3>1. content \in {"absent", "torn"}
      BY <1>6, <2>3 DEF IterationRaises
    <3>2. item.file \in Files /\ Tree.bodies[item.file] = content
          /\ \E u \in saw : u.bodies[item.file] # "absent"
      BY <1>3, <1>5, <2>3
    <3>3. Damage'
      BY <1>2, <3>1, <3>2 DEF Damage
    <3>4. QED
      BY <1>2, <2>1, <3>3, EndsWell
  <2>4. QED
    BY <2>2, <2>3
<1>7. CASE /\ ~(content \in {"absent", "torn"} \/ (agrees /\ IterationRaises(item)))
           /\ ~(agrees /\ KnownRoles(item))
  <2>1. Refused
    BY <1>7 DEF ReadBody
  <2>2. ~ItemLoads(Tree, item)
    BY <1>5, <1>7 DEF ItemLoads, enforce_declared_body_digest, KnownRoles
  <2>3. \A t \in saw : saw = {t} => ~Composes(t, request)
    BY <1>2, <1>3, <2>2, UnloadedIsRefused
  <2>4. \A t \in saw' : saw' = {t} => ~Composes(t, request)'
    BY <1>2, <2>3
  <2>5. QED
    BY <1>2, <2>1, <2>4, EndsWell DEF Refused
<1>8. CASE /\ ~(content \in {"absent", "torn"} \/ (agrees /\ IterationRaises(item)))
           /\ agrees /\ KnownRoles(item)
  <2>1. /\ stacks' = [stacks EXCEPT ![item.id] = entered] /\ next' = next + 1
        /\ pc' = "find_body" /\ result' = "none" /\ listed' = listed
    BY <1>8 DEF ReadBody, Proceeds
  <2>2. ItemLoads(Tree, item) /\ digest = canonical_stack_body(BodyOf(Tree.bodies, item))
    <3>1. item.unlisted = {}
      BY <1>4, <1>8 DEF IterationRaises, Items
    <3>2. QED
      BY <1>4, <1>5, <1>8, <3>1 DEF ItemLoads, enforce_declared_body_digest, KnownRoles
  <2>3. entered \in LoadedStack
    BY <1>4, <1>5, <1>8 DEF LoadedStack, Items, KnownRoles, canonical_stack_body, Contents
  <2> HIDE DEF entered, digest, agrees, content, item
  <2>4. PromptsTyped'
    BY <1>2, <1>3, <1>4, <2>1, <2>3 DEF PromptsTyped
  <2>5. next' - 1 = next /\ next' \in 1 .. Len(listed'.stacks) + 1
        /\ 1 .. next' - 1 = (1 .. next - 1) \cup {next}
    BY <1>4, <2>1
  <2>6. /\ stacks'[item.id] = entered
        /\ \A id \in Ids : id # item.id => stacks'[id] = stacks[id]
    BY <1>3, <1>4, <2>1 DEF PromptsTyped
  <2>7. \A id \in Ids :
          stacks'[id].loaded <=> \E i \in 1 .. next' - 1 : listed'.stacks[i].id = id
    BY <1>3, <1>4, <2>1, <2>5, <2>6 DEF LoadedSoFar, entered
  <2>8. \A i \in 1 .. next' - 1 : \E u \in saw' : ItemLoads(u, listed'.stacks[i])
    BY <1>2, <1>3, <1>4, <2>1, <2>2, <2>5 DEF LoadedSoFar
  <2>9. ASSUME NEW i \in 1 .. next' - 1,
               \A j \in 1 .. next' - 1 : listed'.stacks[j].id = listed'.stacks[i].id => j <= i
        PROVE  IsLoadedFrom(listed.stacks[i])'
    <3>1. CASE i = next
      BY <1>2, <1>4, <2>1, <2>2, <2>6, <3>1 DEF IsLoadedFrom, entered
    <3>2. CASE i # next
      <4>1. i \in 1 .. next - 1
        BY <2>5, <3>2
      <4>2. listed.stacks[i].id # item.id
        <5>1. next \in 1 .. next' - 1 /\ listed'.stacks[next] = item /\ ~(next <= i)
          BY <1>4, <2>1, <2>5, <4>1
        <5>2. listed'.stacks[next].id # listed'.stacks[i].id
          BY <2>9, <5>1
        <5>3. QED
          BY <2>1, <5>1, <5>2
      <4>3. IsLoadedFrom(listed.stacks[i])
        BY <1>3, <2>1, <2>5, <2>9, <4>1 DEF LoadedSoFar
      <4>4. listed.stacks[i].id \in Ids
        BY <4>3 DEF IsLoadedFrom, ItemLoads
      <4>5. stacks'[listed.stacks[i].id] = stacks[listed.stacks[i].id]
        BY <2>6, <4>2, <4>4
      <4>6. QED
        BY <1>2, <2>1, <4>3, <4>5 DEF IsLoadedFrom
    <3>3. QED
      BY <3>1, <3>2
  <2>10. LoadedSoFar'
    <3>1. "stacks" \in listed'.readable /\ \E t \in saw' : t.registry = listed'
      BY <1>2, <1>3, <2>1 DEF LoadedSoFar
    <3>2. QED
      BY <2>1, <2>5, <2>7, <2>8, <2>9, <3>1 DEF LoadedSoFar
  <2>11. CallStands'
    BY <1>2, <1>3, <2>1, <2>10 DEF CallStands, BindingRequest
  <2>12. QED
    BY <1>2, <2>1, <2>4, <2>11, GoesOnWell
<1>9. QED
  BY <1>6, <1>7, <1>8

LEMMA EnvelopeReadKeepsPrompts ==
  ASSUME PromptsInv, ReadEnvelope
  PROVE  PromptsInv'
<1> DEFINE allowed == registry.envelope[request.role]
<1>1. pc = "envelope" /\ ReadsOn
  BY DEF ReadEnvelope
<1>2. /\ BindingTyped' /\ Tree \in saw /\ Tree' = Tree /\ Tree \in PromptTree
      /\ UNCHANGED <<registry, bodies, kind, request, binding, saw>>
      /\ \A r : Ends(r) => PromptsTyped'
  BY <1>1, ReadsKeepTypes
<1>3. /\ PromptsTyped /\ LoadedSoFar /\ next = Len(listed.stacks) + 1
      /\ request.ids # <<>> /\ request.wave_context # "none" /\ request.ids \in Seq(Ids)
      /\ kind = "validate" => binding.shape \in {"whole", "no_stale_on"} /\ request = BindingRequest
  BY <1>1 DEF PromptsInv, CallStands, PromptsTyped
<1>4. CASE request.role \in VALID_ROLES /\ "role_taxonomy" \notin registry.readable
  <2>1. Ends("escaped")
    BY <1>4 DEF ReadEnvelope, Escapes
  <2>2. Damage'
    BY <1>2, <1>4 DEF Damage, Shapely, Parts, Tree
  <2>3. QED
    BY <1>2, <2>1, <2>2, EndsWell
<1>5. CASE \/ request.role \notin VALID_ROLES
           \/ "role_taxonomy" \in registry.readable /\ ~(allowed # {} /\ Composable(allowed))
  <2>1. Refused
    BY <1>5 DEF ReadEnvelope
  <2>2. ASSUME NEW t \in saw, saw = {t} PROVE ~Composes(t, request)
    <3>1. t = Tree /\ t.registry = registry
      BY <1>2, <2>2 DEF Tree
    <3>2. t.registry = listed
      BY <1>3, <2>2, QuietIsComposed
    <3>3. Permits(listed, request.ids, request.role) /\ Ordered(listed, request.ids)
            <=> request.role \in VALID_ROLES /\ Composable(listed.envelope[request.role])
      BY <1>3, <2>2, QuietIsComposed
    <3>4. allowed # {} \/ ~Permits(listed, request.ids, request.role)
      <4>1. \E id : id \in Range(request.ids)
        <5>1. 1 \in DOMAIN request.ids
          BY <1>3
        <5>2. QED
          BY <5>1 DEF Range
      <4>2. Permits(listed, request.ids, request.role) => Range(request.ids) \subseteq allowed
        BY <3>1, <3>2 DEF Permits
      <4>3. QED
        BY <4>1, <4>2
    <3>5. QED
      BY <1>5, <3>1, <3>2, <3>3, <3>4 DEF Composes
  <2>3. \A t \in saw' : saw' = {t} => ~Composes(t, request)'
    BY <1>2, <2>2
  <2>4. QED
    BY <1>2, <2>1, <2>3, EndsWell DEF Refused
<1>6. CASE request.role \in VALID_ROLES /\ "role_taxonomy" \in registry.readable /\ allowed # {} /\ Composable(allowed)
  <2>1. pc' = "policy" /\ result' = "none" /\ UNCHANGED <<listed, next, stacks>>
    BY <1>6 DEF ReadEnvelope, Proceeds, Keeps
  <2>2. PromptsTyped'
    BY <1>2, <1>3, <2>1 DEF PromptsTyped
  <2>3. LoadedSoFar'
    BY <1>2, <1>3, <2>1, MoreIsSeen
  <2>4. Composable(allowed)' /\ allowed' = allowed
    BY <1>2, <1>6, <2>1 DEF Composable
  <2>5. (\E u \in saw : "role_taxonomy" \in u.registry.readable /\ Composable(u.registry.envelope[request.role]))'
    <3>1. "role_taxonomy" \in Tree.registry.readable /\ Tree.registry.envelope[request.role] = allowed
      BY <1>6 DEF Tree
    <3>2. Composable(Tree.registry.envelope[request.role])'
      BY <1>2, <2>4, <3>1
    <3>3. QED
      BY <1>2, <3>1, <3>2
  <2>6. CallStands'
    BY <1>2, <1>3, <1>6, <2>1, <2>3, <2>5 DEF CallStands, BindingRequest
  <2>7. QED
    BY <1>2, <2>1, <2>2, <2>6, GoesOnWell
<1>7. QED
  BY <1>4, <1>5, <1>6

(* The comparisons of the gate leave out no field.                         *)
LEMMA MatchesIsEqual ==
  ASSUME BindingTyped, binding.shape = "whole", NEW s, NEW r,
         request = BindingRequest
  PROVE  Matches(AssembledPrompt(request, s, r)) <=> binding = AssembledPrompt(request, s, r)
<1> DEFINE a == AssembledPrompt(request, s, r)
           p == binding.prompt
<1>1. /\ a = [shape |-> a.shape, prompt |-> a.prompt,
              assembled_prompt_digest |-> a.assembled_prompt_digest]
      /\ a.shape = "whole"
      /\ a.prompt = [role |-> a.prompt.role, stack_ids |-> a.prompt.stack_ids,
                     stack_versions |-> a.prompt.stack_versions,
                     stack_digests |-> a.prompt.stack_digests,
                     stack_releases |-> a.prompt.stack_releases,
                     registry_sha256 |-> a.prompt.registry_sha256,
                     policy |-> a.prompt.policy, wave_context |-> a.prompt.wave_context]
      /\ a.prompt.role = p.role /\ a.prompt.stack_ids = p.stack_ids
      /\ a.prompt.wave_context = p.wave_context
  BY DEF AssembledPrompt, Metadata, BindingRequest
<1> HIDE DEF a
<1>2. Matches(a) => binding = a
  BY <1>1 DEF Matches, BindingTyped
<1>3. binding = a => Matches(a)
  BY DEF Matches
<1>4. QED
  BY <1>2, <1>3 DEF a

LEMMA AssemblyKeepsPrompts ==
  ASSUME PromptsInv, Assemble
  PROVE  PromptsInv'
<1> DEFINE assembled == AssembledPrompt(request, stacks, registry)
<1>1. pc = "policy" /\ UNCHANGED <<registry, bodies, kind, request, saw>>
  BY DEF Assemble, tree
<1>2. /\ PromptsTyped /\ BindingTyped /\ LoadedSoFar /\ next = Len(listed.stacks) + 1
      /\ Tree \in saw /\ Tree' = Tree
      /\ request.ids # <<>> /\ request.wave_context # "none" /\ request.ids \in Seq(Ids)
      /\ kind = "validate" => binding.shape \in {"whole", "no_stale_on"} /\ request = BindingRequest
      /\ request.role \in VALID_ROLES
  BY <1>1 DEF PromptsInv, CallStands, PromptsTyped, Tree
<1>3. PICK u \in saw : "role_taxonomy" \in u.registry.readable /\ Composable(u.registry.envelope[request.role])
  BY <1>1 DEF PromptsInv, CallStands
<1>4. ASSUME NEW r, Ends(r) PROVE PromptsTyped'
  BY <1>1, <1>2, <1>4, TreesAreTyped DEF PromptsTyped, Ends
<1>5. binding' = binding => BindingTyped'
  BY <1>2 DEF BindingTyped
<1>6. CASE "release_policy" \notin registry.readable
  <2>1. Ends("escaped") /\ binding' = binding
    BY <1>6 DEF Assemble, Escapes
  <2>2. Damage'
    BY <1>1, <1>2, <1>6 DEF Damage, Shapely, Parts, Tree
  <2>3. QED
    BY <1>4, <1>5, <2>1, <2>2, EndsWell
<1>7. CASE "release_policy" \in registry.readable /\ registry.policy = "malformed"
  <2>1. Refused /\ binding' = binding
    BY <1>7 DEF Assemble
  <2>2. \A t \in saw : saw = {t} => ~Composes(t, request)
    BY <1>2, <1>7 DEF Composes, Tree
  <2>3. \A t \in saw' : saw' = {t} => ~Composes(t, request)'
    BY <1>1, <2>2
  <2>4. QED
    BY <1>1, <1>4, <1>5, <2>1, <2>3, EndsWell DEF Refused
<1>8. CASE /\ "release_policy" \in registry.readable /\ registry.policy # "malformed"
           /\ kind = "assemble"
  <2>1. binding' = assembled /\ Ends("assembled")
    BY <1>8 DEF Assemble
  <2>2. pc' = "idle" /\ result' = "assembled" /\ next' = 1 /\ stacks' = NothingLoaded
    BY <2>1 DEF Ends
  <2>3. BindingTyped'
    BY <1>2, <2>1 DEF BindingTyped, AssembledPrompt, Metadata
  <2>4. /\ \A id \in Range(request.ids) :
             Lists(listed, id) /\ request.role \in Entry(listed, id).required_roles
        /\ Ordered(listed, request.ids)
    BY <1>2, <1>3, ComposableIsPermitted DEF PromptsTyped
  <2>5. ASSUME NEW id \in Range(request.ids)
        PROVE  LET e == Entry(listed, id) IN
               /\ stacks[id].version = e.version
               /\ e.declared \in {"none", stacks[id].body_sha256}
               /\ \E w \in saw : canonical_stack_body(BodyOf(w.bodies, e)) = stacks[id].body_sha256
    <3>1. id \in Ids
      BY <1>2 DEF Range
    <3>2. IsLoadedFrom(Entry(listed, id)) /\ Entry(listed, id).id = id
      BY <1>2, <2>4, <2>5, <3>1, AllAreLoaded DEF PromptsTyped
    <3>3. QED
      BY <3>2 DEF IsLoadedFrom, ItemLoads
  <2>6. \A id \in Range(request.ids) :
          /\ assembled.prompt.stack_versions[id] = stacks[id].version
          /\ assembled.prompt.stack_digests[id] = stacks[id].body_sha256
    BY DEF AssembledPrompt, Metadata
  <2>7. PICK t \in saw : t.registry = listed
    BY <1>2 DEF LoadedSoFar
  <2> HIDE DEF assembled
  <2>8. StacksFromOneRegistry'
    BY <1>1, <2>1, <2>2, <2>4, <2>5, <2>6, <2>7 DEF StacksFromOneRegistry
  <2>9. CallStands'
    BY <2>2 DEF CallStands
  <2>10. EscapesOnlyOnDamage' /\ AcceptedIfSo'
    BY <2>2 DEF EscapesOnlyOnDamage, AcceptedIfSo
  <2>11. PromptsTyped'
    BY <1>4, <2>1
  <2>12. QED
    BY <2>3, <2>8, <2>9, <2>10, <2>11 DEF PromptsInv
<1>9. CASE /\ "release_policy" \in registry.readable /\ registry.policy # "malformed"
           /\ kind = "validate" /\ binding.shape = "no_stale_on"
  <2>1. binding' = binding /\ Ends("escaped")
    BY <1>9 DEF Assemble, Escapes
  <2>2. Damage'
    BY <1>1, <1>9, <2>1 DEF Damage
  <2>3. QED
    BY <1>4, <1>5, <2>1, <2>2, EndsWell
<1>10. CASE /\ "release_policy" \in registry.readable /\ registry.policy # "malformed"
            /\ kind = "validate" /\ binding.shape = "whole"
  <2>1. binding' = binding /\ Ends(IF Matches(assembled) THEN "valid" ELSE "invalid")
    BY <1>10 DEF Assemble
  <2>2. /\ pc' = "idle" /\ result' = (IF Matches(assembled) THEN "valid" ELSE "invalid")
        /\ next' = 1 /\ stacks' = NothingLoaded
    BY <2>1 DEF Ends
  <2>3. ASSUME NEW t \in saw, saw = {t}
        PROVE  Matches(assembled) <=> /\ binding.shape = "whole" /\ Composes(t, request)
                                      /\ binding = Composition(t, request)
    <3>1. t = Tree /\ u = t /\ t.registry = registry
      BY <1>2, <2>3 DEF Tree
    <3>2. t.registry = listed /\ Loads(t)
      BY <1>2, <2>3, QuietIsComposed
    <3>3. Permits(listed, request.ids, request.role) /\ Ordered(listed, request.ids)
            <=> request.role \in VALID_ROLES /\ Composable(listed.envelope[request.role])
      BY <1>2, <2>3, QuietIsComposed
    <3>4. Composes(t, request)
      <4>1. t.registry.readable = Parts
        <5>1. t.registry.readable \subseteq Parts
          <6>1. IsRegistry(t.registry)
            BY <1>2, RegistriesAreTyped DEF PromptsTyped
          <6>2. QED
            BY <6>1 DEF IsRegistry
        <5>2. QED
          BY <1>3, <1>10, <3>1, <3>2, <5>1 DEF Loads, Parts
      <4>2. request.role \in VALID_ROLES /\ Composable(listed.envelope[request.role])
        BY <1>2, <1>3, <3>1, <3>2
      <4>3. QED
        BY <1>2, <1>10, <3>1, <3>2, <3>3, <4>1, <4>2 DEF Composes
    <3>5. \A id \in Range(request.ids) : Lists(listed, id)
      BY <3>2, <3>4 DEF Composes, Permits
    <3>6. assembled = Composition(t, request)
      BY <1>2, <2>3, <3>1, <3>2, <3>5, QuietComposition
    <3>7. Matches(assembled) <=> binding = assembled
      BY <1>2, <1>10, MatchesIsEqual
    <3>8. QED
      BY <1>2, <1>10, <3>4, <3>6, <3>7
  <2>4. AcceptedIfSo'
    BY <1>1, <2>1, <2>2, <2>3 DEF AcceptedIfSo
  <2>5. StacksFromOneRegistry' /\ EscapesOnlyOnDamage'
    BY <2>2 DEF StacksFromOneRegistry, EscapesOnlyOnDamage
  <2>6. CallStands'
    BY <2>2 DEF CallStands
  <2>7. PromptsTyped'
    BY <1>4, <2>1
  <2>8. QED
    BY <1>5, <2>1, <2>4, <2>5, <2>6, <2>7 DEF PromptsInv
<1>11. QED
  BY <1>2, <1>6, <1>7, <1>8, <1>9, <1>10 DEF PromptsTyped

LEMMA AmendedBinding ==
  ASSUME PromptsInv, NEW b, Amends(b), BindingTyped'
  PROVE  PromptsInv'
<1>1. /\ pc = "idle" /\ result' = "none"
      /\ UNCHANGED <<registry, bodies, pc, kind, request, listed, next, stacks, saw>>
  BY DEF Amends, tree, call
<1>2. PromptsTyped'
  BY <1>1 DEF PromptsInv, PromptsTyped
<1>3. CallStands'
  BY <1>1 DEF PromptsInv, CallStands
<1>4. QED
  BY <1>1, <1>2, <1>3, GoesOnWell

LEMMA AmendsKeepPrompts ==
  ASSUME PromptsInv, LoseField \/ RefreshField
  PROVE  PromptsInv'
<1> SUFFICES ASSUME NEW b, Amends(b),
                    \/ \E shape \in {"absent", "short", "no_ids", "no_stale_on"} :
                         b = [binding EXCEPT !.shape = shape]
                    \/ b = [binding EXCEPT !.prompt.wave_context = "none"]
                    \/ \E v : \E field \in {"stack_versions", "stack_digests", "stack_releases",
                                            "registry_sha256", "policy"} :
                         b = [binding EXCEPT !.prompt[field] = v]
                    \/ \E v : b = [binding EXCEPT !.assembled_prompt_digest = v]
             PROVE  BindingTyped'
  BY AmendedBinding DEF LoseField, RefreshField
<1>1. binding' = b /\ BindingTyped
  BY DEF Amends, PromptsInv
<1>2. CASE \E shape \in {"absent", "short", "no_ids", "no_stale_on"} : b = [binding EXCEPT !.shape = shape]
  BY <1>1, <1>2 DEF BindingTyped
<1>3. CASE b = [binding EXCEPT !.prompt.wave_context = "none"]
  BY <1>1, <1>3 DEF BindingTyped
<1>4. ASSUME NEW v, b = [binding EXCEPT !.assembled_prompt_digest = v] PROVE BindingTyped'
  BY <1>1, <1>4 DEF BindingTyped
<1>5. ASSUME NEW v, NEW field \in {"stack_versions", "stack_digests", "stack_releases",
                                   "registry_sha256", "policy"},
             b = [binding EXCEPT !.prompt[field] = v]
      PROVE  BindingTyped'
  <2>1. CASE field = "stack_versions"
    BY <1>1, <1>5, <2>1 DEF BindingTyped
  <2>2. CASE field = "stack_digests"
    BY <1>1, <1>5, <2>2 DEF BindingTyped
  <2>3. CASE field = "stack_releases"
    BY <1>1, <1>5, <2>3 DEF BindingTyped
  <2>4. CASE field = "registry_sha256"
    BY <1>1, <1>5, <2>4 DEF BindingTyped
  <2>5. CASE field = "policy"
    BY <1>1, <1>5, <2>5 DEF BindingTyped
  <2>6. QED
    BY <2>1, <2>2, <2>3, <2>4, <2>5
<1>6. QED
  BY <1>2, <1>3, <1>4, <1>5

LEMMA PromptsKeep == PromptsInv /\ [Next]_vars => PromptsInv'
<1> SUFFICES ASSUME PromptsInv, [Next]_vars PROVE PromptsInv'
  OBVIOUS
<1>1. CASE EditRegistry \/ EditBody
  BY <1>1, EditsKeepPrompts
<1>2. CASE Handoff \/ Validate
  BY <1>2, HandoffKeepsPrompts, ValidateKeepsPrompts
<1>3. CASE Read
  BY <1>3, RegistryReadKeepsPrompts, FindBodyKeepsPrompts, BodyReadKeepsPrompts,
     EnvelopeReadKeepsPrompts, AssemblyKeepsPrompts DEF Read
<1>4. CASE LoseField \/ RefreshField
  BY <1>4, AmendsKeepPrompts
<1>5. CASE UNCHANGED vars
  <2>1. UNCHANGED <<registry, bodies, pc, kind, request, listed, next, stacks, result, binding, saw>>
    BY <1>5 DEF vars, tree, call
  <2>2. PromptsTyped' /\ BindingTyped'
    BY <2>1 DEF PromptsInv, PromptsTyped, BindingTyped
  <2>3. LoadedSoFar => LoadedSoFar'
    BY <2>1, MoreIsSeen
  <2>4. \A allowed : Composable(allowed) => Composable(allowed)'
    BY <2>1 DEF Composable
  <2>5. CallStands'
    BY <2>1, <2>3, <2>4 DEF PromptsInv, CallStands, Tree, BindingRequest, Item
  <2>6. StacksFromOneRegistry' /\ EscapesOnlyOnDamage' /\ AcceptedIfSo'
    BY <2>1 DEF PromptsInv, StacksFromOneRegistry, EscapesOnlyOnDamage, AcceptedIfSo
  <2>7. QED
    BY <2>2, <2>5, <2>6 DEF PromptsInv
<1>6. QED
  BY <1>1, <1>2, <1>3, <1>4, <1>5 DEF Next

LEMMA PromptsAreKept == DocumentsSpec => []PromptsInv
<1>1. DocumentsInit => PromptsInv
  <2> SUFFICES ASSUME DocumentsInit PROVE PromptsInv
    OBVIOUS
  <2>1. /\ registry \in Committed /\ bodies = [f \in Files |-> "text"] /\ saw = {Tree}
        /\ pc \in {"standing", "idle"} /\ kind = "assemble" /\ request = NoRequest
        /\ next = 1 /\ stacks = NothingLoaded /\ binding = NoBinding /\ result = "none"
    BY DEF DocumentsInit, Init, PromptsStand
  <2>2. PromptsTyped
    <3>1. registry \in Registries /\ bodies \in [Files -> Contents] /\ <<>> \in Seq(Ids)
      BY <2>1, PromptStacksAssumption DEF Contents
    <3>2. Tree \in PromptTree /\ NothingLoaded \in [Ids -> LoadedStack]
      BY <3>1 DEF PromptTree, Tree, NothingLoaded, Unloaded, LoadedStack
    <3>3. QED
      BY <2>1, <3>1, <3>2 DEF PromptsTyped, NoRequest
  <2>3. BindingTyped
    <3> DEFINE m == Metadata(NoRequest, NothingLoaded, EmptyRegistry)
    <3>1. binding = [shape |-> "absent", prompt |-> m, assembled_prompt_digest |-> m]
      BY <2>1 DEF NoBinding, AssembledPrompt
    <3>2. m = [role |-> m.role, stack_ids |-> m.stack_ids, stack_versions |-> m.stack_versions,
               stack_digests |-> m.stack_digests, stack_releases |-> m.stack_releases,
               registry_sha256 |-> m.registry_sha256, policy |-> m.policy,
               wave_context |-> m.wave_context]
      BY DEF Metadata
    <3>3. m.stack_ids = <<>> /\ <<>> \in Seq(Ids)
      BY DEF Metadata, NoRequest
    <3> HIDE DEF m
    <3>4. QED
      BY <3>1, <3>2, <3>3 DEF BindingTyped
  <2>4. CallStands
    BY <2>1 DEF CallStands
  <2>5. QED
    BY <2>1, <2>2, <2>3, <2>4
    DEF PromptsInv, StacksFromOneRegistry, EscapesOnlyOnDamage, AcceptedIfSo
<1>2. PromptsInv /\ [DocumentsNext]_document_vars => PromptsInv'
  BY PromptsKeep DEF DocumentsNext, document_vars
<1>3. QED
  BY <1>1, <1>2, PTL DEF DocumentsSpec

(* prompt_stacks.py, validate_prompt_stack_binding: in a tree nobody       *)
(* touched during the call, the gate accepts exactly the bindings that are *)
(* what the tree composes to; for every registry and every request.        *)
THEOREM CurrentIsAccepted == DocumentsSpec => []AcceptedIffCurrent
<1>1. PromptsInv => AcceptedIffCurrent
  BY DEF PromptsInv, AcceptedIfSo, AcceptedIffCurrent, Quiet
<1>2. QED
  BY <1>1, PromptsAreKept, PTL

(* prompt_stacks.py, assemble_prompt: however the tree is edited while a   *)
(* prompt is assembled, its stacks are the ones a single registry of the   *)
(* call lists and versions for the role, in that registry's order, and each*)
(* body was in the tree.  The envelope is not in it: that may come from    *)
(* another registry.                                                       *)
THEOREM OneRegistryComposes == DocumentsSpec => []StacksFromOneRegistry
<1>1. PromptsInv => StacksFromOneRegistry
  BY DEF PromptsInv
<1>2. QED
  BY <1>1, PromptsAreKept, PTL

(* prompt_stacks.py: an exception nobody catches means that a file was     *)
(* damaged or removed, that a registry of the call is not of the shape the *)
(* code takes it to have, or that a recorded list of the binding is none.  *)
THEOREM OnlyDamageEscapes == DocumentsSpec => []EscapesOnlyOnDamage
<1>1. PromptsInv => EscapesOnlyOnDamage
  BY DEF PromptsInv
<1>2. QED
  BY <1>1, PromptsAreKept, PTL

-----------------------------------------------------------------------------
(* The records that make claims                                            *)

RecordsTyped ==
  /\ contract \in ContractRecord
  /\ source \in SourceRecord
  /\ decided \in [ours: Decision \cup {"PASS", "none"}, theirs: Decision \cup {"PASS", "none"}]

(* No axis rises over one that is not at its top exactly when the axes     *)
(* stand on a staircase.                                                   *)
LEMMA Staircase ==
  ASSUME NEW c \in ContractRecord
  PROVE  LadderErrors(c) = {} <=>
           \E k \in DOMAIN AXES : \A i \in DOMAIN AXES :
             /\ i < k => c.status[AXES[i]] = RUNGS[AXES[i]]
             /\ i > k => c.status[AXES[i]] = 1
<1> DEFINE rises(i) == c.status[AXES[i]] # 1
           tops(i) == c.status[AXES[i]] = RUNGS[AXES[i]]
           Ordered_ == \A i, j \in 1 .. 6 : j < i /\ rises(i) => tops(j)
           Steps(k) == \A i \in 1 .. 6 : (i < k => tops(i)) /\ (i > k => ~rises(i))
<1>1. DOMAIN AXES = 1 .. 6
  BY DEF AXES
<1>2. LadderErrors(c) = {} <=> Ordered_
  <2> DEFINE Pairs == {p \in (1 .. 6) \X (1 .. 6) : p[2] < p[1] /\ rises(p[1]) /\ ~tops(p[2])}
  <2>1. LadderErrors(c) = {<<"ladder", AXES[p[1]], AXES[p[2]]>> : p \in Pairs}
    BY <1>1 DEF LadderErrors
  <2>2. LadderErrors(c) = {} <=> Pairs = {}
    <3> HIDE DEF Pairs
    <3> QED BY <2>1
  <2>3. Pairs = {} <=> \A i, j \in 1 .. 6 : ~(<<i, j>> \in Pairs)
    OBVIOUS
  <2>4. \A i, j \in 1 .. 6 : <<i, j>> \in Pairs <=> (j < i /\ rises(i) /\ ~tops(j))
    OBVIOUS
  <2> HIDE DEF Pairs, rises, tops
  <2>5. QED
    BY <2>2, <2>3, <2>4
<1> HIDE DEF rises, tops
<1>3. ASSUME NEW k \in 1 .. 6, Steps(k) PROVE Ordered_
  BY <1>3
<1>4. ASSUME Ordered_ PROVE \E k \in 1 .. 6 : Steps(k)
  <2>1. CASE rises(6)
    BY <1>4, <2>1
  <2>2. CASE ~rises(6) /\ rises(5)
    BY <1>4, <2>2
  <2>3. CASE ~rises(6) /\ ~rises(5) /\ rises(4)
    BY <1>4, <2>3
  <2>4. CASE ~rises(6) /\ ~rises(5) /\ ~rises(4) /\ rises(3)
    BY <1>4, <2>4
  <2>5. CASE ~rises(6) /\ ~rises(5) /\ ~rises(4) /\ ~rises(3) /\ rises(2)
    BY <1>4, <2>5
  <2>6. CASE ~rises(6) /\ ~rises(5) /\ ~rises(4) /\ ~rises(3) /\ ~rises(2)
    BY <1>4, <2>6
  <2>7. QED
    BY <2>1, <2>2, <2>3, <2>4, <2>5, <2>6
<1>5. LadderErrors(c) = {} <=> \E k \in 1 .. 6 : Steps(k)
  BY <1>2, <1>3, <1>4
<1>6. QED
  BY <1>1, <1>5 DEF rises, tops

(* What is asked of the rules of a contract is what the property says.     *)
LEMMA RulesRest ==
  ASSUME NEW c \in ContractRecord
  PROVE  undefined_terms(c) = {} <=>
           /\ \A t \in Terms : c.terms[t] # "UNDEFINED"
           /\ c.used # {} =>
                \A t \in c.used \cup {SWING_DEFINITION, SWING_PARAMETERS} : c.terms[t] # "absent"
<1>1. DOMAIN c.terms = Terms /\ c.used \subseteq Terms
  BY DEF ContractRecord, Glossary, Terms
<1> DEFINE all == c.used \cup {SWING_DEFINITION, SWING_PARAMETERS}
           marked == \E t \in Terms : c.terms[t] = "UNDEFINED"
<1>2. undefined_terms(c) = {} <=> ~marked /\ \A t \in required_terms(c) : c.terms[t] # "absent"
  <2>1. required_terms(c) \subseteq Terms
    BY <1>1 DEF required_terms, Terms
  <2> DEFINE needed == {t \in required_terms(c) : ~Defined(c.terms[t])}
  <2>2. undefined_terms(c) = {} <=> needed = {} /\ ~marked
    BY <1>1 DEF undefined_terms
  <2>3. ~marked => (needed = {} <=> \A t \in required_terms(c) : c.terms[t] # "absent")
    BY <2>1 DEF Defined
  <2>4. QED
    BY <2>2, <2>3
<1>3. CASE c.used = {}
  BY <1>2, <1>3 DEF required_terms
<1>4. CASE c.used # {}
  <2>1. required_terms(c) \subseteq all /\ SWING_DEFINITION \in required_terms(c)
    BY <1>4 DEF required_terms
  <2>2. Defined(c.terms[SWING_DEFINITION]) => required_terms(c) = all
    BY <1>4 DEF required_terms
  <2>3. SWING_DEFINITION \in Terms
    BY DEF Terms
  <2>4. ~marked /\ c.terms[SWING_DEFINITION] # "absent" => Defined(c.terms[SWING_DEFINITION])
    BY <2>3 DEF Defined
  <2> HIDE DEF all
  <2>5. undefined_terms(c) = {} <=> ~marked /\ \A t \in all : c.terms[t] # "absent"
    BY <1>2, <2>1, <2>2, <2>4
  <2>6. QED
    BY <1>4, <2>5 DEF all
<1>5. QED
  BY <1>3, <1>4

LEMMA TypedContractIsEarned == RecordsTyped => ContractIsEarned
<1> SUFFICES ASSUME RecordsTyped PROVE ContractIsEarned
  OBVIOUS
<1>1. contract \in ContractRecord
  BY DEF RecordsTyped
<1>2. LiveErrors(contract) = {} <=> ~contract.live
  BY DEF LiveErrors
<1>3. AxisErrors(contract) = {} <=> \A a \in DOMAIN RUNGS : contract.status[a] \in 1 .. RUNGS[a]
  BY DEF AxisErrors
<1>4. "rules" \in DOMAIN RUNGS /\ contract.status.rules \in Nat
  BY <1>1 DEF RUNGS, ContractRecord
<1>5. contract.status.rules \in 1 .. RUNGS.rules => (contract.status.rules # 1 <=> contract.status.rules > 1)
  BY <1>4 DEF RUNGS
<1>6. RulesErrors(contract) = {} <=> (undefined_terms(contract) = {} \/ contract.status.rules = 1)
  BY DEF RulesErrors
<1>7. ladder_errors(contract) = {} <=>
        /\ LiveErrors(contract) = {} /\ AxisErrors(contract) = {}
        /\ LadderErrors(contract) = {} /\ RulesErrors(contract) = {}
  BY DEF ladder_errors
<1>8. LadderErrors(contract) = {} <=>
           \E k \in DOMAIN AXES : \A i \in DOMAIN AXES :
             /\ i < k => contract.status[AXES[i]] = RUNGS[AXES[i]]
             /\ i > k => contract.status[AXES[i]] = 1
  BY <1>1, Staircase
<1>9. undefined_terms(contract) = {} <=>
           /\ \A t \in Terms : contract.terms[t] # "UNDEFINED"
           /\ contract.used # {} =>
                \A t \in contract.used \cup {SWING_DEFINITION, SWING_PARAMETERS} :
                  contract.terms[t] # "absent"
  BY <1>1, RulesRest
<1>10. QED
  BY <1>2, <1>3, <1>4, <1>5, <1>6, <1>7, <1>8, <1>9 DEF ContractIsEarned

(* Where no field may hold JSON's null, a field that is filled is a text.  *)
LEMMA FilledIsText ==
  ASSUME "null" \notin Texts, NEW x \in Texts
  PROVE  Filled(x) <=> x = "text"
  BY ClaimsAssumption DEF Filled

LEMMA TypedSourceIsEarned ==
  ASSUME "null" \notin Texts, RecordsTyped
  PROVE  SourceIsEarned
<1>1. source \in SourceRecord
  BY DEF RecordsTyped
<1>2. ASSUME may_run_detector(source)
      PROVE  /\ source.state = "CONNECTED"
             /\ source.artifact = "text" /\ source.commit = "text"
             /\ source.document = "text" /\ source.document_exists
  <2>1. source.state = "CONNECTED" /\ state_errors(source) = {}
    BY <1>2 DEF may_run_detector
  <2>2. ConnectionErrors(source) = {} /\ DocumentErrors(source) = {}
    BY <2>1 DEF state_errors
  <2>3. Filled(source["artifact"]) /\ Filled(source["commit"])
    BY <2>1, <2>2 DEF ConnectionErrors
  <2>4. Filled(source.document) /\ source.document_exists
    BY <2>2 DEF DocumentErrors
  <2>5. QED
    BY <1>1, <2>1, <2>3, <2>4, FilledIsText DEF SourceRecord
<1>3. ASSUME state_errors(source) = {}, open_founder_tasks(source) = {},
             NEW c \in Range(source.candidates)
      PROVE  c.terms_verified /\ c.verified_how = "text" /\ c.question = "text"
  <2>1. PICK i \in DOMAIN source.candidates : c = source.candidates[i]
    BY DEF Range
  <2>2. c \in CandidateRecord
    BY <1>1, <2>1 DEF SourceRecord
  <2>3. CandidateErrors(c) = {}
    BY <1>3, <2>1 DEF state_errors
  <2>4. c.is_object /\ c.has_verification
    BY <2>3 DEF CandidateErrors
  <2>5. c.terms_verified
    BY <1>3, <2>1, <2>4 DEF open_founder_tasks
  <2>6. Filled(c["question"]) /\ Filled(c.verified_how)
    BY <2>3, <2>4, <2>5 DEF CandidateErrors
  <2>7. QED
    BY <2>2, <2>5, <2>6, FilledIsText DEF CandidateRecord
<1>4. QED
  BY <1>2, <1>3 DEF SourceIsEarned

LEMMA TypedNeitherWins == RecordsTyped => NeitherWins
<1> SUFFICES ASSUME RecordsTyped PROVE NeitherWins
  OBVIOUS
<1>1. decided \in [ours: Decision \cup {"PASS", "none"}, theirs: Decision \cup {"PASS", "none"}]
  BY DEF RecordsTyped
<1>2. DOMAIN decided = {"ours", "theirs"} /\ Range(decided) = {decided["ours"], decided["theirs"]}
  BY <1>1 DEF Range
<1>3. QED
  BY <1>1, <1>2 DEF NeitherWins, resolve_cross_repository, Decision

LEMMA ClaimsKeepTypes == RecordsTyped /\ ClaimsNext => RecordsTyped'
<1> SUFFICES ASSUME RecordsTyped, ClaimsNext PROVE RecordsTyped'
  OBVIOUS
<1> USE DEF RecordsTyped
<1>1. CASE ReviseContract
  <2>1. contract \in ContractRecord /\ UNCHANGED <<source, decided>>
    BY <1>1 DEF ReviseContract
  <2>2. CASE contract' = [contract EXCEPT !.live = ~@]
    BY <2>1, <2>2 DEF ContractRecord
  <2>3. ASSUME NEW a \in DOMAIN RUNGS, NEW r \in {Missing, Invented} \cup 1 .. RUNGS[a],
               contract' = [contract EXCEPT !.status[a] = r]
        PROVE  contract' \in ContractRecord
    <3>1. r \in Nat
      BY <2>3 DEF Missing, Invented, RUNGS
    <3>2. QED
      BY <2>1, <2>3, <3>1 DEF ContractRecord
  <2>4. ASSUME NEW t \in Terms, NEW v \in Meanings,
               contract' = [contract EXCEPT !.terms[t] = v]
        PROVE  contract' \in ContractRecord
    BY <2>1, <2>4 DEF ContractRecord, Glossary
  <2>5. ASSUME NEW used \in SUBSET {"HH", "LH"}, contract' = [contract EXCEPT !.used = used]
        PROVE  contract' \in ContractRecord
    BY <2>1, <2>5 DEF ContractRecord
  <2>6. QED
    BY <1>1, <2>1, <2>2, <2>3, <2>4, <2>5 DEF ReviseContract
<1>2. CASE ReviseSource
  <2>1. source \in SourceRecord /\ UNCHANGED <<contract, decided>>
    BY <1>2 DEF ReviseSource
  <2>2. ASSUME NEW st \in Range(STATES) \cup {"AVAILABLE"}, source' = [source EXCEPT !.state = st]
        PROVE  source' \in SourceRecord
    BY <2>1, <2>2 DEF SourceRecord
  <2>3. ASSUME NEW f \in {"artifact", "commit", "document"}, NEW x \in Texts,
               source' = [source EXCEPT ![f] = x]
        PROVE  source' \in SourceRecord
    BY <2>1, <2>3 DEF SourceRecord
  <2>4. CASE source' = [source EXCEPT !.document_exists = ~@]
    BY <2>1, <2>4 DEF SourceRecord
  <2>5. ASSUME NEW c \in Candidates, source' = [source EXCEPT !.candidates = Append(@, c)]
        PROVE  source' \in SourceRecord
    <3>1. source.candidates \in Seq(CandidateRecord) /\ c \in CandidateRecord
      BY <2>1, ClaimsAssumption DEF SourceRecord
    <3>2. Append(source.candidates, c) \in Seq(CandidateRecord)
      BY <3>1
    <3>3. QED
      BY <2>1, <2>5, <3>2 DEF SourceRecord
  <2>6. ASSUME NEW c \in Candidates, NEW i \in DOMAIN source.candidates,
               source' = [source EXCEPT !.candidates[i] = c]
        PROVE  source' \in SourceRecord
    <3>1. source.candidates \in Seq(CandidateRecord) /\ c \in CandidateRecord
      BY <2>1, ClaimsAssumption DEF SourceRecord
    <3>2. [source.candidates EXCEPT ![i] = c] \in Seq(CandidateRecord)
      BY <3>1
    <3>3. QED
      BY <2>1, <2>6, <3>2 DEF SourceRecord
  <2>7. QED
    BY <1>2, <2>1, <2>2, <2>3, <2>4, <2>5, <2>6 DEF ReviseSource
<1>3. CASE Speak
  BY <1>3 DEF Speak
<1>4. QED
  BY <1>1, <1>2, <1>3 DEF ClaimsNext

LEMMA RecordsStayTyped == DocumentsSpec => []RecordsTyped
<1>1. DocumentsInit => RecordsTyped
  <2>1. DocumentsInit => /\ contract \in Contracts /\ source \in Sources
                         /\ decided = [ours |-> "none", theirs |-> "none"]
    BY ClaimsAssumption DEF DocumentsInit, RecordsStand, ClaimsInit
  <2>2. Contracts \subseteq ContractRecord /\ Sources \subseteq SourceRecord
    BY ClaimsAssumption
  <2>3. QED
    BY <2>1, <2>2 DEF RecordsTyped
<1>2. RecordsTyped /\ [DocumentsNext]_document_vars => RecordsTyped'
  BY ClaimsKeepTypes DEF DocumentsNext, document_vars, claims_vars, RecordsTyped
<1>3. QED
  BY <1>1, <1>2, PTL DEF DocumentsSpec

(* pattern_contract.py:144, data_sources.py:68: a contract is free of      *)
(* errors exactly when it stands on its ladder with no term it rests on    *)
(* missing or marked, whatever its glossary holds; a source lets a detector*)
(* run only on a named artifact and commit, if none of the source's texts  *)
(* is JSON's null; for any number of revisions of any record.              *)
THEOREM EarnedWhateverIsRevised ==
  ASSUME "null" \notin Texts
  PROVE  DocumentsSpec => []ClaimsAreEarned
<1>1. RecordsTyped => ClaimsAreEarned
  BY TypedContractIsEarned, TypedSourceIsEarned, TypedNeitherWins DEF ClaimsAreEarned
<1>2. QED
  BY <1>1, RecordsStayTyped, PTL

=============================================================================
