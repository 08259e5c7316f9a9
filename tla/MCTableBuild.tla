---------------------------- MODULE MCTableBuild ----------------------------
(***************************************************************************)
(* The builders with the polynomials the library calls them with.         *)
(***************************************************************************)
EXTENDS TableBuild, CrcLibrary

Builder(reflected, width, poly, split) ==
  [reflected |-> reflected, width |-> width, poly |-> poly, split |-> split]

MCBuilders == {
  Builder(TRUE,  16, POLY_16,     TRUE),     \* reflected_table_u16
  Builder(TRUE,  16, POLY_KERMIT, TRUE),
  Builder(TRUE,  16, POLY_DNP,    TRUE),
  Builder(TRUE,  32, POLY_32,     FALSE),    \* reflected_table_u32
  Builder(FALSE, 16, POLY_CCITT,  TRUE),     \* forward_table_u16
  Builder(FALSE, 64, POLY_64,     TRUE),     \* forward_table_u64
  Builder(FALSE, 8,  POLY_8,      FALSE) }   \* forward_table_u8
=============================================================================
