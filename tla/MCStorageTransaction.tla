------------------------ MODULE MCStorageTransaction ------------------------
EXTENDS StorageTransactionProofs
=============================================================================
