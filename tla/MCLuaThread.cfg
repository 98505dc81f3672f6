SPECIFICATION FairSpec
CONSTANTS
  Main = main
  Thread = hello_thread
  Runners = {hello_thread, shell}
  Modules = {"zephyr"}
  Preload = {"zephyr"}
  hello = hello
  greet = greet
  info = info
  Typed = {info}
  SavedProgram <- UserProgram
  Bundle <- SampleBundle
  Program <- SampleProgram
  Factory = v1
  Later = {v2}
  NoFile = NoFile
  Empty = Empty
  Saved = Saved
  MaxBoots = 2
INVARIANTS
  TypeOK
  RunsThisFirmware
  RunsEveryScript
  DofileIsTheFilesystems
  RequireGivesOneModule
PROPERTIES
  KeepsFiles
  ThreadEnds
CHECK_DEADLOCK FALSE
