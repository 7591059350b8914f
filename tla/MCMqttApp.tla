------------------------------ MODULE MCMqttApp ------------------------------
(* Budgets of environment events for the model-checking runs of MqttApp. *)
EXTENDS MqttApp

Budget(press, session_loss, wifi_loss, wifi_rejoin, foreign) ==
  [press |-> press, session_loss |-> session_loss, wifi_loss |-> wifi_loss,
   wifi_rejoin |-> wifi_rejoin, foreign |-> foreign]

SafetyBudget   == Budget(1, 1, 1, 1, 1)
ProgressBudget == Budget(1, 1, 1, 0, 0)
QuickPresses   == Budget(2, 0, 0, 0, 0)
ManyPresses    == Budget(7, 1, 0, 0, 0)
=============================================================================
