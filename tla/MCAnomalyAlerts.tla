-------------------------- MODULE MCAnomalyAlerts --------------------------
(***************************************************************************)
(* Instances of AnomalyAlerts for TLC: one key with samples up to two, or  *)
(* two keys with samples up to one.                                        *)
(***************************************************************************)
EXTENDS AnomalyAlerts

CONSTANTS k1, k2

One(kind, source, may) ==
  [kind |-> [k \in {k1} |-> kind], most |-> 2, source |-> source, may |-> may]
Two(first, second, source, may) ==
  [kind |-> [k \in {k1, k2} |-> IF k = k1 THEN first ELSE second], most |-> 1,
   source |-> source, may |-> may]

MCModes ==
  {One("blocked", "5m", {"unread", "crashes"}), One("blocked", "5m", {"unread", "settings"}),
   One("health", "5m", {"unread", "saves"}),
   One("stopped", "5m", {"unread", "crashes"}), One("tampering", "5m", {"unread", "saves"}),
   One("stopped", "daily", {"unread", "crashes"}),
   One("tampering", "daily", {"unread", "crashes"}),
   Two("blocked", "stopped", "5m", {"crashes"}),
   Two("blocked", "tampering", "5m", {"saves"}),
   Two("tampering", "stopped", "daily", {"unread"})}
=============================================================================
