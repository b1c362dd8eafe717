-------------------------- MODULE MCBuiltinExecution --------------------------
(* BuiltinExecution beside SkillLifecycle: two executors work on one       *)
(* operation while one caller installs, activates and deactivates the      *)
(* revision it is bound to.                                                *)
EXTENDS BuiltinExecution, TLC

MCCommand(id, op, expected, target, digest) ==
    [id |-> id, operation |-> op, expected |-> expected, target |-> target,
     digest |-> digest]

MCCommands ==
    {MCCommand("o1", "install", 0, 1, "a"),
     MCCommand("o2", "activate", 1, 1, "a"),
     MCCommand("o3", "deactivate", 1, 1, "a")}

MCExecutions == {[id |-> "e1", digest |-> "a", revision |-> 1]}

MCSymmetry == Permutations(Executors)

===============================================================================
