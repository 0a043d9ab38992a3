-------------------------------- MODULE MCAI --------------------------------
(***************************************************************************)
(* The parts that ask a language model, one beside the other, and the      *)
(* settings they read.  A behaviour is about one topic; the other parts    *)
(* stay where they begin.                                                  *)
(*                                                                         *)
(* overview: one check with two jobs, single or batch, against two runs, a *)
(* load, the chat, failures and restarts.                                  *)
(* chat: one officer's company and two requests of one conversation.       *)
(* settings: two readers, and an administrator who sends one form.         *)
(***************************************************************************)
EXTENDS Overview, Chat, Settings

CONSTANT Topic

VARIABLE topic

MCInit == topic \in Topic /\ OverviewInit /\ ChatInit /\ SettingsInit

MCNext ==
    /\ UNCHANGED topic
    /\ \/ /\ topic = "overview" /\ OverviewNext
          /\ UNCHANGED <<chatVars, settingsVars>>
       \/ /\ topic = "chat" /\ ChatNext
          /\ UNCHANGED <<overviewVars, settingsVars>>
       \/ /\ topic = "settings" /\ SettingsNext
          /\ UNCHANGED <<overviewVars, chatVars>>

MCSpec ==
    MCInit /\ [][MCNext]_<<topic, overviewVars, chatVars, settingsVars>>

\* An overview being written names the one job that writes it; conversations,
\* messages and settings are of the shapes the program gives them.
AITypeOK == OverviewTypeOK /\ ChatTypeOK /\ SettingsTypeOK

=============================================================================
