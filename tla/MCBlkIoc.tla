------------------------------ MODULE MCBlkIoc ------------------------------
(* The instance of BlkIoc for TLC: IocLifetime.cfg gives the constants. *)
EXTENDS BlkIoc
=============================================================================
