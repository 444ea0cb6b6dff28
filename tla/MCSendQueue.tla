---------------------------- MODULE MCSendQueue ----------------------------
(***************************************************************************)
(* Instances of SendQueue for TLC: two calling threads, two messages with  *)
(* a reply device each and one handed over without a reply argument.       *)
(***************************************************************************)
EXTENDS SendQueue, TLC

CONSTANTS c1, c2, m1, m2, k1, plc, host

MCCallers  == {c1, c2}
MCMessages == {m1, m2, k1}
MCDevices  == {plc, host}

\* m1 and m2 come from try_send_data, k1 from process_try_send.
MCReplyTo  == (m1 :> plc) @@ (m2 :> host) @@ (k1 :> KeepReply)

\* The overrun needs no more than one.
MCOneMessage == {m1}
MCOneReply   == m1 :> plc
=============================================================================
