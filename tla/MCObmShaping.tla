----------------------------- MODULE MCObmShaping -----------------------------
(***************************************************************************)
(* Instances of ObmShaping for TLC: two classes that share a table, a      *)
(* third one with its own, a class the mapping does not know.              *)
(***************************************************************************)
EXTENDS ObmShaping

MCMetric      == {"GBL_CPU", "GBL_NEW", "BYDSK_UTIL", "OTHER"}
MCPrefixClass == [m \in MCMetric |-> CASE m \in {"GBL_CPU", "GBL_NEW"} -> "GLOBAL"
                                       [] m = "BYDSK_UTIL" -> "DISK" [] OTHER -> None]
MCNamed       == [global |-> "GLOBAL", CONFIGURATION |-> "CONFIGURATION", DISK |-> "DISK",
                  New |-> "NEW"]
MCTableOf     == [GLOBAL |-> "node", CONFIGURATION |-> "node", DISK |-> "disk"]
MCMetricMap   == [GLOBAL |-> [GBL_CPU |-> "cpu_util_pct"],
                  CONFIGURATION |-> [GBL_CPU |-> "cpu_count"],
                  DISK |-> [BYDSK_UTIL |-> "disk_util_pct"]]

Rec(class, common, wrapper, inner, top) ==
  [class |-> class, common |-> common, wrapper |-> wrapper, inner |-> inner, top |-> top]

(* Every class and place of the metrics, named classes with an identity.   *)
SomeRecords ==
  {Rec(c, IF c = None THEN {} ELSE {"node_fqdn"}, w, in, top) :
     c \in {"global", "CONFIGURATION", "New", None}, w \in {"none", "metrics", "data"},
     in \in {{"GBL_CPU", "OTHER"}, {"GBL_CPU", "BYDSK_UTIL"}}, top \in {{}, {"GBL_CPU", "GBL_NEW"}}}
FewRecords ==
  {Rec(c, {"node_fqdn"}, "metrics", {"GBL_CPU", "BYDSK_UTIL"}, {}) : c \in {"global", "DISK"}}

(* Alone, with another record, and with another one in a list with junk.   *)
MixedPayload == {[shape |-> "single", items |-> <<r>>] : r \in SomeRecords}
           \cup {[shape |-> "envelope", items |-> <<r, q>>] : r \in SomeRecords, q \in FewRecords}
           \cup {[shape |-> "list", items |-> <<r, Junk, q>>] : r \in FewRecords, q \in FewRecords}
=============================================================================
