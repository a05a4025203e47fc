----------------------------- MODULE MCSplitter ------------------------------
(* ThinkSplitter with an open and a close tag as long as what feed holds     *)
(* allows (HoldMax + 1), and an open tag that is one character longer.       *)
EXTENDS ThinkSplitter

MCLengths == [think |-> 3, endThink |-> 4, antthinking |-> 5]
MCOpens   == {"think", "antthinking"}
=============================================================================
