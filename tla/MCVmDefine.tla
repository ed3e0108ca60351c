------------------------------ MODULE MCVmDefine ------------------------------
(* Small instances of VmDefine for TLC.                                    *)
EXTENDS VmDefine
=============================================================================
