------------------------------- MODULE LuaState -------------------------------
(***************************************************************************)
(* What luaz_openlibs puts into a Lua state (src/luaz_utils.c): a require   *)
(* that looks in registry._LOADED and then in registry._PRELOAD, and the    *)
(* loaders of the libraries.  Every runner (a Lua thread, or a shell in     *)
(* `lua_fs run`) has a state of its own; a state that is closed is gone.    *)
(* When a runner calls require is up to the module that extends this one.   *)
(***************************************************************************)
EXTENDS Naturals

CONSTANTS
  Runners,   \* whoever runs scripts
  Modules,   \* names given to require
  Preload    \* those whose library the Kconfig options compile in

ASSUME PreloadAssumption == Preload \subseteq Modules

VARIABLES
  loaded,    \* loaded[r][n]: registry._LOADED[n], 0 while it is nil
  made,      \* made[r]: tables the loaders of r's state have made
  fsGlobals, \* dofile and loadfile are the filesystem's
  answers    \* history: everything require(n) returned in r's state

svars == <<loaded, made, fsGlobals, answers>>

NoTable == [n \in Modules |-> 0]
NoAnswer == [n \in Modules |-> {}]

StateInit ==
  /\ loaded = [r \in Runners |-> NoTable]
  /\ made = [r \in Runners |-> 0]
  /\ fsGlobals = [r \in Runners |-> FALSE]
  /\ answers = [r \in Runners |-> NoAnswer]

Answer(r, n, t) == answers' = [answers EXCEPT ![r][n] = @ \cup {t}]

\* Mutant: fs is nested in zephyr and its globals are not set.
OpensFsOnlyNested(r, n) == UNCHANGED fsGlobals

\* luaopen_fs, which luaopen_zephyr calls, replaces two globals.
OpensFs(r, n) == fsGlobals' = [fsGlobals EXCEPT ![r] = @ \/ n = "zephyr"]

RequireCached(r, n) ==
  /\ loaded[r][n] # 0
  /\ Answer(r, n, loaded[r][n])
  /\ UNCHANGED <<loaded, made, fsGlobals>>

\* Mutant: the loader's table is returned and not remembered.
RequireForgets(r, n) ==
  /\ loaded[r][n] = 0
  /\ n \in Preload
  /\ made' = [made EXCEPT ![r] = @ + 1]
  /\ OpensFs(r, n)
  /\ Answer(r, n, made'[r])
  /\ UNCHANGED loaded

RequireLoads(r, n) ==
  /\ loaded[r][n] = 0
  /\ n \in Preload
  /\ made' = [made EXCEPT ![r] = @ + 1]
  /\ loaded' = [loaded EXCEPT ![r][n] = made'[r]]
  /\ OpensFs(r, n)
  /\ Answer(r, n, made'[r])

\* There is no such module, or memory ends: before the loader has made its
\* table, after luaopen_fs has replaced the globals, or after the table was
\* made and before _LOADED holds it.
RequireRaises(r, n) ==
  /\ \/ UNCHANGED <<made, fsGlobals>>
     \/ /\ loaded[r][n] = 0
        /\ n \in Preload
        /\ made' = [made EXCEPT ![r] = @ + 1]
        /\ OpensFs(r, n)
  /\ UNCHANGED <<loaded, answers>>

\* lua_close
CloseState(r) ==
  /\ loaded' = [loaded EXCEPT ![r] = NoTable]
  /\ made' = [made EXCEPT ![r] = 0]
  /\ fsGlobals' = [fsGlobals EXCEPT ![r] = FALSE]
  /\ answers' = [answers EXCEPT ![r] = NoAnswer]

StateTypeOK ==
  /\ loaded \in [Runners -> [Modules -> Nat]]
  /\ made \in [Runners -> Nat]
  /\ fsGlobals \in [Runners -> BOOLEAN]
  /\ answers \in [Runners -> [Modules -> SUBSET Nat]]

\* As long as a state lives, every script that requires a module gets the same
\* table, also when earlier attempts to load it failed half way.
RequireGivesOneModule ==
  \A r \in Runners : \A n \in Modules : \A s, t \in answers[r][n] : s = t
=============================================================================
