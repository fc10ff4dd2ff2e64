-------------------------------- MODULE Documents --------------------------------
(***************************************************************************)
(* The documents of the repository and those who read them: the prompt     *)
(* stacks (PromptStacks), the files of the working tree (TreeReaders) and  *)
(* the records that make claims (Claims).  No one of the three changes what*)
(* another reads, so one of them moves while the other two stand still.    *)
(***************************************************************************)
EXTENDS PromptStacks, TreeReaders, Claims

document_vars == <<vars, tree_vars, claims_vars>>

PromptsStand ==
  /\ registry \in Committed /\ bodies = [f \in Files |-> "text"] /\ saw = {Tree}
  /\ pc = "standing" /\ kind = "assemble" /\ request = NoRequest /\ result = "none"
  /\ listed = EmptyRegistry /\ next = 1 /\ stacks = NothingLoaded /\ binding = NoBinding
  /\ edits = MaxEdits /\ amends = MaxAmends

TreeStands ==
  /\ worktree = [p \in AllPaths |-> CHOOSE c \in Writable[p] : TRUE]
  /\ touched = {} /\ reader = "none" /\ stage = "standing" /\ unread = <<>>
  /\ declared = <<>> /\ index = NoIndex /\ found = {} /\ placed = NotPlaced
  /\ treeEdits = MaxTreeEdits

RecordsStand ==
  /\ contract = CHOOSE c \in Contracts : TRUE
  /\ source = CHOOSE s \in Sources : TRUE
  /\ decided = [ours |-> "none", theirs |-> "none"]
  /\ revisions = MaxRevisions

DocumentsInit ==
  \/ Init /\ TreeStands /\ RecordsStand
  \/ ReadersInit /\ PromptsStand /\ RecordsStand
  \/ ClaimsInit /\ PromptsStand /\ TreeStands

DocumentsNext ==
  \/ Next /\ UNCHANGED <<tree_vars, claims_vars>>
  \/ ReadersNext /\ UNCHANGED <<vars, claims_vars>>
  \/ ClaimsNext /\ UNCHANGED <<vars, tree_vars>>

DocumentsSpec == DocumentsInit /\ [][DocumentsNext]_document_vars

=============================================================================
