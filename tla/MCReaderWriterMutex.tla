------------------------ MODULE MCReaderWriterMutex ------------------------
(* ReaderWriterMutex instantiated for TLC. *)
EXTENDS ReaderWriterMutex
============================================================================
