--------------------------- MODULE MCLegacyReader ---------------------------
(***************************************************************************)
(* LegacyReader for TLC.  File_reader always inflates (decompress_data_   *)
(* from_file), and no writer of the repository deflates this layout:      *)
(* File_writer and trace_writer write it raw through an ofstream.  So the *)
(* stream given here is the inflate output of a deflated file in the      *)
(* layout the reader of hpd_cache_file_gestion.h expects: the records of  *)
(* two loads (delay 3, and an uncacheable one) as File_writer encodes     *)
(* them, each followed by the 8-byte value read_value takes.              *)
(***************************************************************************)
EXTENDS LegacyReader, SequencesExt

Load(d, s, unc, phys) ==
  [delay |-> d, op |-> 0, size |-> s, need_rsp |-> TRUE, phys_indexed |-> phys,
   uncacheable |-> unc, io |-> FALSE, abort |-> FALSE]

MCLoads == << Load(3, 3, FALSE, FALSE), Load(0, 2, TRUE, FALSE) >>

LW  == INSTANCE LegacyWriter WITH Records <- MCLoads, Writer <- "File_writer",
                                 WordWidth <- 64, ReqWords <- 1

\* each record followed by an 8-byte value
MCStreamValued ==
  <<3,0,0,0, 0,0,0,0,0,0,0,0, 0,3,16, 0,0,0,0,0,0,0,0,
    0,0,0,0, 0,0,0,0,0,0,0,0, 0,2,20, 0,0,0,0,0,0,0,0>>

MCRecordSpansValued == << [j \in 1..23 |-> j], [j \in 1..23 |-> 23 + j] >>

ASSUME MCStreamValued =
         FlattenSeq([i \in 1..Len(MCLoads) |-> LW!Encoded[i] \o [j \in 1..8 |-> 0]])
=============================================================================
