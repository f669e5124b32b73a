-------------------------- MODULE MCControlObject --------------------------
(***************************************************************************)
(* One object, to be selected first (with enhanced security, operated once *)
(* or many times) or operated directly.                                    *)
(***************************************************************************)
EXTENDS ControlObject

Direct   == <<3>>
Selected == <<4>>
Once     == <<TRUE>>
Many     == <<FALSE>>
Timeout  == <<15000>>
=============================================================================
