---------------------------- MODULE MCInboxSync -----------------------------
(* Instances of InboxSync for TLC: what opening a record may come to.      *)
EXTENDS InboxSync

\* Everything that can happen to a record of its kind.
OpensAny == [k \in Kinds |-> CASE k = "sealed"  -> {"ok", "proto", "held"}
                               [] k = "group"   -> {"ok", "keys", "proto"}
                               [] k = "service" -> {"ok"}]

\* The host always gets what the engine needs; a sealed record is broken, a
\* group's keys come late.
OpensNoHold == [k \in Kinds |-> CASE k = "sealed"  -> {"proto"}
                                  [] k = "group"   -> {"keys"}
                                  [] k = "service" -> {"ok"}]

\* Every record opens.
OpensAll == [k \in Kinds |-> {"ok"}]
=============================================================================
