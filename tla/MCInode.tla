------------------------------ MODULE MCInode ------------------------------
(* Two threads and files of up to four bytes, two to a sector, two sectors to *)
(* an index sector, on a device of four sectors: one such file fills it, and  *)
(* two that hold a byte between them do.                                      *)
EXTENDS Inode

MCRequests == {<<0, 1>>, <<1, 2>>, <<2, 1>>}
=============================================================================
