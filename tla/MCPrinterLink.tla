---------------------------- MODULE MCPrinterLink ---------------------------
(***************************************************************************)
(* A small instance of PrinterLink; its bounds are in PrinterLink.cfg.     *)
(***************************************************************************)
EXTENDS PrinterLink
=============================================================================
