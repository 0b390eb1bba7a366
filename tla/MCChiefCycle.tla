---------------------------- MODULE MCChiefCycle ----------------------------
(***************************************************************************)
(* Instances of ChiefCycle for TLC.                                        *)
(***************************************************************************)
EXTENDS ChiefCycle, TLC

ContentSymmetry == Permutations(Contents)

Config(decide, execute, dryRun, auto, channel, transport) ==
  [ decide |-> decide, execute |-> execute, dryRun |-> dryRun, auto |-> auto,
    channel |-> channel, transport |-> transport ]

\* A deciding cycle approved by an async channel: the Feishu card, the bot link.
CardConfigs == {Config(TRUE, TRUE, FALSE, FALSE, "feishu-card", "simulated")}

BotConfigs == {Config(TRUE, TRUE, FALSE, FALSE, "feishu-bot", "simulated")}

AsyncConfigs == CardConfigs \union BotConfigs

\* The ways the cycle is invoked: async, CLI with and without a decision, auto
\* approval, dry run, no approval wanted, and each transport.
AllConfigs ==
  AsyncConfigs \union
  { Config(TRUE,  TRUE,  FALSE, FALSE, "cli", "simulated"),
    Config(FALSE, TRUE,  FALSE, TRUE,  "cli", "simulated"),
    Config(FALSE, TRUE,  TRUE,  FALSE, "cli", "none"),
    Config(FALSE, TRUE,  FALSE, FALSE, "feishu-card", "shadow"),
    Config(FALSE, TRUE,  FALSE, FALSE, "feishu-bot", "none"),
    Config(TRUE,  FALSE, FALSE, FALSE, "cli", "none") }
=============================================================================
