---------------------------- MODULE MCSchemaInstall ----------------------------
(* SchemaInstall on a small instance: an old package, its successor and    *)
(* one that went another way, three groups and four logins, of which one   *)
(* is a member of another, one is a member of the owner group by way of    *)
(* the last, and the last is unsafe itself.                                *)
EXTENDS SchemaInstall, TLC

MCPackages == {<<"a">>, <<"a", "b", "c">>, <<"a", "d">>}

CONSTANTS l1, l2, l3, l4, owner, runtime, writer

MCHandmade == {<<l1, l2>>, <<l3, l4>>, <<l4, owner>>}

MCSymmetry == Permutations(Installers)

===============================================================================
