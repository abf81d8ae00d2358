---------------------------- MODULE MCFileTable ----------------------------
\* Two processes, four descriptors (one beyond the console) and one on either side
\* of the table, a file of two bytes and a directory of three entries, numbers that
\* wrap around at 8.
EXTENDS FileTable, TLC

MCItems == [f1 |-> 2] @@ [d1 |-> 3]
MCSeeks == {-1, 0, 1}
MCOutside == {-1, MaxFiles}
=============================================================================
