---------------------------- MODULE MCHubLifecycle ----------------------------
(* Instances of HubLifecycle: the config entries TLC tries. *)
EXTENDS HubLifecycle

\* The MQTT route, for an account and what its board reports.
Classic(configured, live) ==
  [configured |-> configured, live |-> live, uid20 |-> FALSE, uuidType |-> "0",
   proposal |-> FALSE, pin |-> "missing"]

Native(configured, pin) ==
  [configured |-> configured, live |-> configured, uid20 |-> TRUE, uuidType |-> "1",
   proposal |-> TRUE, pin |-> pin]

MCEntries ==
  {Classic("PS22087", "PS22087B"), Classic("PS25007", "PS25007A"),
   Classic("PS21050", "PS21050D"), Classic("PS20040", "PS20040D"),
   Classic("PS20005", "PS20005A"), Classic("PS21053", "PS21053C"),
   Classic("CHOWHUB", "PS22027"), Classic("PS24118", "PS19001"),
   Native("PS19001", "valid"), Native("PS17062", "valid"), Native("PS25142", "valid"),
   Native("PS25142", "invalid")}
=============================================================================
