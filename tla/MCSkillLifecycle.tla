--------------------------- MODULE MCSkillLifecycle ---------------------------
(* SkillLifecycle on a small instance: two callers and two revisions of    *)
(* the skill.  A rollback and a deactivation share an operation            *)
(* identifier, and so do the activation and the rebuild, which has a       *)
(* journal of its own.                                                     *)
EXTENDS SkillLifecycle

MCCommand(id, op, expected, target, digest) ==
    [id |-> id, operation |-> op, expected |-> expected, target |-> target,
     digest |-> digest]

MCCommands ==
    {MCCommand("o1", "install", 0, 1, "a"),
     MCCommand("o2", "install", 1, 2, "b"),
     MCCommand("o3", "activate", 2, 2, "b"),
     MCCommand("o4", "rollback", 2, 1, "a"),
     MCCommand("o5", "deactivate", 2, 1, "a"),
     MCCommand("o4", "deactivate", 2, 2, "b"),
     MCCommand("o3", "rebuild", 2, 2, "b")}

===============================================================================
