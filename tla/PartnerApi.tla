----------------------------- MODULE PartnerApi ------------------------------
(***************************************************************************)
(* pps-services-tokopedia as one process: the inquiry endpoint and the     *)
(* consumer of the callback queue, which a crash or a restart ends         *)
(* together.                                                               *)
(***************************************************************************)
EXTENDS Inquiry, StatusNotifier

vars == <<inquiryVars, notifierVars>>

Init == InquiryInit /\ NotifierInit

Restart == /\ crashes < MaxCrashes
           /\ crashes' = crashes + 1
           /\ InquiriesDie
           /\ NotifierDies

Next == \/ InquiryNext /\ UNCHANGED notifierVars
        \/ NotifierNext /\ UNCHANGED inquiryVars
        \/ Restart

Spec == Init /\ [][Next]_vars
=============================================================================
