SPECIFICATION Spec
CONSTANTS
    Installers = {i1, i2}
    Packages <- MCPackages
    Foreign = "x"
    l1 = l1
    l2 = l2
    l3 = l3
    l4 = l4
    owner = owner
    runtime = runtime
    writer = writer
    Logins = {l1, l2, l3, l4}
    Eligible = {l1, l2, l3}
    Groups = {owner, runtime, writer}
    SchemaOwner = owner
    Handmade <- MCHandmade
    None = None
SYMMETRY MCSymmetry
INVARIANT
    RolesSeparated
