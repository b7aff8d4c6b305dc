-------------------------- MODULE MCChannelLimiter --------------------------
(* Instances of ChannelLimiter for TLC. *)
EXTENDS ChannelLimiter, TLC

CONSTANTS c1, c2, c3, ch1, ch2

Policy(max, queue, rpm, tpm, timed) ==
  [MaxConcurrent |-> max, QueueSize |-> queue, RPM |-> rpm, TPM |-> tpm, Timed |-> timed]

\* One contended channel whose policy is changed while callers wait.
ThreeCallers == {c1, c2, c3}
OneChannel == {ch1}
QueueConfigs == {Policy(1, 1, 0, 0, TRUE), Policy(1, 0, 0, 0, FALSE), Policy(2, 0, 0, 0, FALSE), Policy(0, 0, 0, 0, FALSE)}
NoUsages == {}

\* Two channels over several minutes, with request and token windows.
TwoCallers == {c1, c2}
TwoChannels == {ch1, ch2}
RateConfigs == {Policy(1, 1, 2, 2, FALSE), Policy(0, 0, 1, 0, FALSE)}
RateUsages == {2}
=============================================================================
