----------------------------- MODULE BotControl -----------------------------
(***************************************************************************)
(* The operator's control panel: the singleton bot_runtime_state row       *)
(* (backend/app/api/bot.py) and the kill switch of the daily risk ledger   *)
(* (backend/app/api/execution.py).  Every handler is one database          *)
(* transaction without an await, so every handler is one action.  The      *)
(* lists of symbols, timeframes and strategies are abstracted to whether   *)
(* `ensure_start_allowed' finds one symbol and one strategy enabled.       *)
(***************************************************************************)

VARIABLES
  bot,         \* the BotRuntimeState row
  ledgerKill   \* DailyRiskLedger.kill_switch_triggered of the latest row

botVars == <<bot, ledgerKill>>

BotStatus == {"stopped", "running", "kill_switch_active"}

BotRow == [status   : BotStatus,   \* status
           auto     : BOOLEAN,     \* automatic_trading_enabled
           approval : BOOLEAN,     \* manual_approval_required
           pause    : BOOLEAN,     \* pause_new_entries
           kill     : BOOLEAN,     \* kill_switch_enabled
           enabled  : BOOLEAN]     \* a symbol and a strategy are enabled

(* state(): the row created on first use. *)
DefaultBot == [status |-> "stopped", auto |-> FALSE, approval |-> TRUE,
               pause |-> TRUE, kill |-> FALSE, enabled |-> FALSE]

BotInit == bot = DefaultBot /\ ledgerKill = FALSE

(* put_config: any of the listed fields, never the status or the kill switch. *)
PutConfig ==
  /\ \E auto, approval, pause, enabled \in BOOLEAN :
       bot' = [bot EXCEPT !.auto = auto, !.approval = approval,
                          !.pause = pause, !.enabled = enabled]
  /\ UNCHANGED ledgerKill

EnsureStartAllowed == ~bot.kill /\ bot.enabled

(* start and resume share start_transition. *)
StartTransition ==
  /\ EnsureStartAllowed
  /\ bot' = [bot EXCEPT !.status = "running", !.auto = TRUE, !.pause = FALSE]
  /\ UNCHANGED ledgerKill

Stop ==
  /\ bot' = [bot EXCEPT !.status = "stopped", !.pause = TRUE]
  /\ UNCHANGED ledgerKill

Pause ==
  /\ bot' = [bot EXCEPT !.pause = TRUE]
  /\ UNCHANGED ledgerKill

EmergencyStop ==
  /\ bot' = [bot EXCEPT !.kill = TRUE, !.status = "kill_switch_active",
                        !.pause = TRUE]
  /\ UNCHANGED ledgerKill

(* set_kill: writes the ledger only, never the runtime row. *)
SetKill(value) == ledgerKill' = value /\ UNCHANGED bot

EnableKill == SetKill(TRUE)
DisableKill == SetKill(FALSE)

BotNext ==
  \/ PutConfig
  \/ StartTransition
  \/ Stop
  \/ Pause
  \/ EmergencyStop
  \/ EnableKill
  \/ DisableKill

BotSpec == BotInit /\ [][BotNext]_botVars

(* automatic_routing_enabled of services/pipeline.py: what the candle       *)
(* pipeline asks before it hands a setup to the executor.                   *)
AutomaticRoutingEnabled ==
  /\ bot.status = "running"
  /\ bot.auto
  /\ ~bot.approval
  /\ ~bot.pause
  /\ ~bot.kill

-----------------------------------------------------------------------------
BotTypeOK == bot \in BotRow /\ ledgerKill \in BOOLEAN

(* After an emergency stop no sequence of config, stop, pause, start and    *)
(* resume calls brings the bot back to running while the runtime kill       *)
(* switch is set.                                                           *)
EmergencyStopHolds == bot.kill => bot.status # "running"
=============================================================================
