---------------------------- MODULE MCBotRunner ----------------------------
(* One bot, with people at the table.                                      *)
EXTENDS BotRunner
=============================================================================
