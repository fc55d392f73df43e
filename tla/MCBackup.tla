------------------------------ MODULE MCBackup ------------------------------
(***************************************************************************)
(* Instances of BackupImport: a parent zone and its child, two tenants.    *)
(***************************************************************************)
EXTENDS BackupImport, TLC

MCParent == <<"com", "acme">>
MCChild  == <<"com", "acme", "lab">>
MCFamily == {MCParent, MCChild}

MCSymmetry == Permutations(Requests \ Minted) \cup Permutations(Minted)
                \cup Permutations(Tenants) \cup Permutations(Metas)
=============================================================================
