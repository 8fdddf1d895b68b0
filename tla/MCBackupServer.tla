--------------------------- MODULE MCBackupServer ---------------------------
EXTENDS BackupServer, TLC

ClientSymmetry == Permutations(Clients)
=============================================================================
