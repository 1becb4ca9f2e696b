--------------------------- MODULE MCModbusWorker ---------------------------
(***************************************************************************)
(* Instances of ModbusWorker.  "Small": an analog sensor with one alarm    *)
(* limit, a linked relay and a linked DI channel, and a relay polled on    *)
(* its own.  "Shared": two analog sensors that drive the same relay, one   *)
(* on its high limit and one on its low limit.                             *)
(***************************************************************************)
EXTENDS ModbusWorker

SmallPollList == <<"temp", "pump1">>
SmallKind == [temp |-> "analog", pump1 |-> "do"]
SmallThresholds == [temp |-> {"max"}, pump1 |-> {}]
SmallDiChannels == [temp |-> 1, pump1 |-> 0]
SmallLinks == {[analog |-> "temp", do |-> "relay", limits |-> {"max"}]}

SharedPollList == <<"temp", "door", "level">>
SharedKind == [temp |-> "analog", door |-> "di", level |-> "analog"]
SharedThresholds == [temp |-> {"max"}, door |-> {}, level |-> {"min", "max"}]
SharedDiChannels == [temp |-> 0, door |-> 0, level |-> 0]
SharedLinks == {[analog |-> "temp", do |-> "relay", limits |-> {"max"}],
                [analog |-> "level", do |-> "relay", limits |-> {"min"}],
                [analog |-> "level", do |-> "horn", limits |-> {"min", "max"}]}
=============================================================================
