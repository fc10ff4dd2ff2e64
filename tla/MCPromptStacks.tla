----------------------------- MODULE MCPromptStacks -----------------------------
(* PromptStacks for TLC: two stacks, the second depending on the first, and *)
(* registries that differ from the present one in one respect each.         *)
EXTENDS PromptStacks

Both == {"executor", "commander"}

First == [id |-> "00", file |-> "f00", version |-> "0.1.0", declared |-> "text",
          depends_on |-> {}, required_roles |-> Both, unlisted |-> {}]

Second == [id |-> "04", file |-> "f04", version |-> "0.1.0", declared |-> "text",
           depends_on |-> {"00"}, required_roles |-> Both, unlisted |-> {}]

Envelope(ids) ==
  [r \in VALID_ROLES |->
     CASE r = "executor" -> ids
       [] r = "commander" -> {"00", "04"}
       [] OTHER -> {}]

Registry(stacks_, executor, policy) ==
  [readable |-> Parts, stacks |-> stacks_, envelope |-> Envelope(executor),
   policy |-> policy]

Present == Registry(<<First, Second>>, {"00", "04"}, "current")

(* The envelope narrowed, the roles of one stack narrowed.                  *)
Narrow    == Registry(<<First, Second>>, {"00"}, "current")
NoRole    == Registry(<<First, [Second EXCEPT !.required_roles = {"commander"}]>>,
                      {"00", "04"}, "current")
(* A release of the second stack, with and without a new body.              *)
Released  == Registry(<<First, [Second EXCEPT !.version = "0.1.1", !.declared = "edited"]>>,
                      {"00", "04"}, "current")
Loose     == Registry(<<First, [Second EXCEPT !.declared = "none"]>>,
                      {"00", "04"}, "current")
Revised   == Registry(<<First, Second>>, {"00", "04"}, "revised")
Malformed == Registry(<<First, Second>>, {"00", "04"}, "malformed")
Torn      == [EmptyRegistry EXCEPT !.readable = {}]
NoId      == Registry(<<[First EXCEPT !.id = "missing"]>>, {"00", "04"}, "current")
Stranger  == Registry(<<First, [Second EXCEPT !.required_roles = Both \cup {"stranger"}]>>,
                      {"00", "04"}, "current")
(* The second stack is listed twice, the last entry depends on nothing.     *)
Twice     == Registry(<<First, Second, [Second EXCEPT !.depends_on = {}, !.declared = "none"]>>,
                      {"00", "04"}, "current")

(* Two parts that are no objects; an entry without a file, or whose         *)
(* dependencies are null.                                                   *)
Partial   == [Present EXCEPT !.readable = {"stacks"}]
NoFile    == Registry(<<First, [Second EXCEPT !.file = "none"]>>, {"00", "04"}, "current")
NoList    == Registry(<<First, [Second EXCEPT !.unlisted = {"depends_on"}]>>,
                      {"00", "04"}, "current")

MCRegistries ==
  {Present, Narrow, NoRole, Released, Loose, Revised, Malformed, Torn, NoId,
   Stranger, Twice, Partial, NoFile, NoList}

MCCommitted == {Present}

MCPresentOnly == {Present}

MCHeld ==
  [f \in Files |-> IF f = "f00" THEN {"text", "edited"} ELSE Contents]

Request(ids, role) == [ids |-> ids, role |-> role, wave_context |-> "wave3"]

MCRequests ==
  {Request(<<"00", "04">>, "executor"), Request(<<"04", "00">>, "executor"),
   Request(<<"04">>, "commander"), Request(<<"00", "00">>, "executor"),
   Request(<<"00", "99">>, "executor"), Request(<<>>, "executor"),
   Request(<<"00">>, "verifier"), Request(<<"00">>, "stranger"),
   [Request(<<"00">>, "executor") EXCEPT !.wave_context = "none"]}
=============================================================================
