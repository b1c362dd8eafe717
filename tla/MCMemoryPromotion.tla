--------------------------- MODULE MCMemoryPromotion ---------------------------
(* MemoryPromotion on a small instance: two revisions of one memory race,  *)
(* a third deletes it, and one proposal identifier is used for a second    *)
(* memory too, under an approval that is valid for the first tick only.    *)
EXTENDS MemoryPromotion, TLC

CONSTANTS m1, m2

MCProposal(id, memory, kind, expected, source, until, ends, approved) ==
    [id |-> id, memory |-> memory, kind |-> kind, expected |-> expected,
     source |-> source, until |-> until, ends |-> ends,
     approved |-> approved]

Always == 0..MaxTime

MCProposals ==
    {MCProposal("p1", m1, "create", 0, "s1", 2, 2, Always),
     MCProposal("p2", m1, "revise", 1, "s1", 2, 1, Always),
     MCProposal("p3", m1, "supersede", 1, "s1", 1, 2, Always),
     MCProposal("p4", m1, "delete", 2, "s1", 2, 2, Always),
     MCProposal("p2", m2, "create", 0, "s1", 2, 2, {0}),
     MCProposal("p5", m1, "dispute", 1, "s1", 2, 2, Always)}

MCSymmetry == Permutations(Promoters)

===============================================================================
