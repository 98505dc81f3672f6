---------------------------- MODULE MCLuaThread ----------------------------
(* The three scripts that main of samples/littlefs installs, as the calls   *)
(* they make (info.lua also requires string, whose table is one more such    *)
(* as zephyr's), and one that a user types into a shell, over info.lua too. *)
(* They are scripts of the kind the theorems of LuaThreadProofs speak of.   *)
(* The second boot is an upgrade; no step compares two versions, so a reboot *)
(* of the same one is such a behaviour with its two versions made equal.     *)
EXTENDS LuaThread, TLC

CONSTANTS hello, greet, info

SampleBundle == <<hello, greet, info>>

SampleProgram ==
  (hello :> <<Call("require", "zephyr"), Call("dofile", greet),
              Call("loadfile", info), Call("list", hello)>>) @@
  (greet :> <<Call("require", "zephyr")>>) @@
  (info  :> <<Call("require", "zephyr")>>)

UserProgram == <<Call("try", "zephyr"), Call("require", "zephyr")>>

ASSUME SampleRequiresZephyrFirst == RequiresZephyrFirst
ASSUME SampleFirstRunsTheOthers == FirstRunsTheOthers
=============================================================================
