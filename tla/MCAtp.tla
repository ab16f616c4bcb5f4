------------------------------- MODULE MCAtp -------------------------------
(***************************************************************************)
(* The transaction protocol on a small instance: MCAtp.cfg answers with    *)
(* the desktop splitter, which respects the bitmap of the request.           *)
(***************************************************************************)
EXTENDS Atp
=============================================================================
