---------------------------- MODULE MCFileStore ----------------------------
EXTENDS FileStore
=============================================================================
