------------------------------- MODULE EspNow -------------------------------
(***************************************************************************)
(* Tactility/Source/service/espnow (EspNowService.cpp, EspNowWifi.cpp) with*)
(* the app that uses it (app/chat/ChatApp.cpp) and the on and off of the   *)
(* Wi-Fi service, which shares the radio's driver.  enable(), disable() and*)
(* the Wi-Fi service's setEnabled() only dispatch a job to the main thread.*)
(* The driver's task delivers what is received.                            *)
(*                                                                         *)
(* The service's mutex is recursive; it is held for more than a step by the*)
(* main thread while it enables, and by the receiver.  The LVGL lock is    *)
(* held by the send handler and by the receiver while it draws.            *)
(***************************************************************************)
EXTENDS Naturals, Sequences

CONSTANT MaxJobs   \* bound on the jobs that wait when the user acts

VARIABLES
    jobs,        \* the main dispatcher's queue
    mainPc,      \* where the main thread is; it has the mutex unless "idle"
    nowEnabled,  \* EspNowService::enabled
    radio,       \* the Wi-Fi service's radio_state, "On" or "Off"
    driver,      \* external: who has initialised the driver
    leftOn,      \* history: a call of the driver failed, and left it to ESP-NOW
    chat,        \* the life of the Chat app
    msgList,     \* what ChatApp::msg_list is: "none", a "live" list or a "dead" one
    chatPc,      \* where its onCreate() or onDestroy() is
    receiving,   \* EspNowService::subscriptions has the app's
    recvPc,      \* where the receiver is; it has the mutex unless "idle"
    sendPc,      \* where the send handler is; it has LVGL unless "idle"
    closedEarly  \* history: the app was closed while its enable() was queued

mainVars == <<jobs, mainPc, nowEnabled, radio, driver, leftOn>>
chatVars == <<chat, msgList, chatPc, receiving, closedEarly>>
vars == <<mainVars, chatVars, recvPc, sendPc>>

Init == /\ jobs = <<>>
        /\ mainPc = "idle"
        /\ nowEnabled = FALSE
        /\ radio \in {"On", "Off"}
        /\ driver = IF radio = "On" THEN "wifi" ELSE "none"
        /\ leftOn = FALSE
        /\ chat = "none" /\ msgList = "none" /\ chatPc = "idle"
        /\ receiving = FALSE
        /\ recvPc = "idle" /\ sendPc = "idle"
        /\ closedEarly = FALSE

MutexFree == mainPc = "idle" /\ recvPc = "idle"
LvglFree == sendPc = "idle" /\ recvPc # "draw"

-----------------------------------------------------------------------------
(* The main thread *)

Take(job) == /\ mainPc = "idle"
             /\ jobs # <<>>
             /\ Head(jobs) = job

(* The Wi-Fi service's dispatchEnable(): the driver may not be initialised, or not
   started, and then it is deinitialised again.                               *)
WifiOn == /\ Take("wifiOn")
          /\ jobs' = Tail(jobs)
          /\ \/ radio = "On" /\ UNCHANGED <<radio, driver>>
             \/ radio' = "On" /\ driver' = "wifi"
             \/ radio = "Off" /\ radio' = "Off" /\ driver' \in {driver, "none"}
          /\ UNCHANGED <<mainPc, nowEnabled, leftOn, chatVars, recvPc, sendPc>>

(* dispatchDisable(): the driver may not stop, or not be deinitialised. *)
WifiOff == /\ Take("wifiOff")
           /\ jobs' = Tail(jobs)
           /\ \/ UNCHANGED <<radio, driver>>
              \/ radio = "On" /\ radio' = "Off" /\ driver' \in {driver, "none"}
           /\ UNCHANGED <<mainPc, nowEnabled, leftOn, chatVars, recvPc, sendPc>>

(* Mutation of Enable: ESP-NOW does not mind the Wi-Fi service. *)
EnableAnyway == /\ Take("enable")
                /\ MutexFree
                /\ mainPc' = IF nowEnabled THEN "idle" ELSE "setup"
                /\ jobs' = Tail(jobs)
                /\ UNCHANGED <<nowEnabled, radio, driver, leftOn, chatVars, recvPc, sendPc>>

(* enableFromDispatcher() asks the Wi-Fi service to stop, which is another job
   for this thread.                                                        *)
Enable == /\ Take("enable")
          /\ MutexFree
          /\ mainPc' = CASE nowEnabled -> "idle"
                         [] ~nowEnabled /\ radio = "On" -> "poll"
                         [] OTHER -> "setup"
          /\ jobs' = IF mainPc' = "poll" THEN Append(Tail(jobs), "wifiOff") ELSE Tail(jobs)
          /\ UNCHANGED <<nowEnabled, radio, driver, leftOn, chatVars, recvPc, sendPc>>

(* Mutation of PollEnd: the radio is polled without a time limit. *)
PollOn == /\ mainPc = "poll"
          /\ radio = "Off"
          /\ mainPc' = "setup"
          /\ UNCHANGED <<jobs, nowEnabled, radio, driver, leftOn, chatVars, recvPc, sendPc>>

(* disableWifiService() polls for two seconds. *)
PollEnd == /\ mainPc = "poll"
           /\ mainPc' = IF radio = "Off" THEN "setup" ELSE "idle"
           /\ UNCHANGED <<jobs, nowEnabled, radio, driver, leftOn, chatVars, recvPc, sendPc>>

(* A call of the driver may fail, and what succeeded before it stays. *)
Setup == /\ mainPc = "setup"
         /\ mainPc' = "idle"
         /\ \E ok \in BOOLEAN, left \in {driver, "espnow"} :
              /\ ok => left = "espnow"
              /\ nowEnabled' = ok
              /\ driver' = left
              /\ leftOn' = (~ok /\ left = "espnow")
         /\ UNCHANGED <<jobs, radio, chatVars, recvPc, sendPc>>

(* Mutation of Disable: the driver is not stopped. *)
DisableOnly == /\ Take("disable")
               /\ MutexFree
               /\ jobs' = Tail(jobs)
               /\ nowEnabled' = FALSE
               /\ UNCHANGED <<mainPc, radio, driver, leftOn, chatVars, recvPc, sendPc>>

(* disableFromDispatcher(): if the driver does not stop, only the log says so. *)
Disable == /\ Take("disable")
           /\ MutexFree
           /\ jobs' = Tail(jobs)
           /\ nowEnabled' = FALSE
           /\ \/ ~nowEnabled /\ UNCHANGED <<driver, leftOn>>
              \/ nowEnabled /\ driver' = "none" /\ leftOn' = FALSE
              \/ nowEnabled /\ driver' = driver /\ leftOn' = TRUE
           /\ UNCHANGED <<mainPc, radio, chatVars, recvPc, sendPc>>

MainStep == WifiOn \/ WifiOff \/ Enable \/ PollEnd \/ Setup \/ Disable

-----------------------------------------------------------------------------
(* The user switches Wi-Fi, in another app. *)
UserWifi(job) == /\ chat = "none" /\ chatPc = "idle"
                 /\ Len(jobs) < MaxJobs
                 /\ jobs' = Append(jobs, job)
                 /\ UNCHANGED <<mainPc, nowEnabled, radio, driver, leftOn, chatVars, recvPc, sendPc>>

(* The hooks of Chat.  onCreate() enables and subscribes. *)
Create == /\ chat = "none" /\ chatPc = "idle"
          /\ Len(jobs) < MaxJobs
          /\ jobs' = Append(jobs, "enable")
          /\ chatPc' = "subscribe" /\ msgList' = "none"
          /\ UNCHANGED <<mainPc, nowEnabled, radio, driver, leftOn, chat, receiving,
                         closedEarly, recvPc, sendPc>>

Subscribe == /\ chatPc = "subscribe"
             /\ MutexFree
             /\ receiving' = TRUE
             /\ chat' = "created"
             /\ chatPc' = "idle"
             /\ UNCHANGED <<mainVars, msgList, closedEarly, recvPc, sendPc>>

(* onShow(), again when the app that covered Chat is closed: two taps in the list of
   apps start both.                                                              *)
Show == /\ chat \in {"created", "hidden"} /\ chatPc = "idle"
        /\ LvglFree
        /\ chat' = "shown" /\ msgList' = "live"
        /\ UNCHANGED <<mainVars, chatPc, receiving, closedEarly, recvPc, sendPc>>

Hide == /\ chat = "shown"
        /\ LvglFree
        /\ chat' = "hidden"
        /\ UNCHANGED <<mainVars, msgList, chatPc, receiving, closedEarly, recvPc, sendPc>>

(* The redraw for the app that covers it deletes the widgets. *)
Redraw == /\ chat = "hidden" /\ msgList = "live"
          /\ LvglFree
          /\ msgList' = "dead"
          /\ UNCHANGED <<mainVars, chat, chatPc, receiving, closedEarly, recvPc, sendPc>>

(* onDestroy() *)
Destroy == /\ chat = "hidden" /\ chatPc = "idle"
           /\ chatPc' = "unsubscribe"
           /\ UNCHANGED <<mainVars, chat, msgList, receiving, closedEarly, recvPc, sendPc>>

(* Mutation of Unsubscribe: it does not wait for the receiver. *)
UnsubscribeAtOnce == /\ chatPc = "unsubscribe"
                     /\ receiving' = FALSE
                     /\ chatPc' = "query"
                     /\ UNCHANGED <<mainVars, chat, msgList, closedEarly, recvPc, sendPc>>

Unsubscribe == /\ chatPc = "unsubscribe"
               /\ MutexFree
               /\ receiving' = FALSE
               /\ chatPc' = "query"
               /\ UNCHANGED <<mainVars, chat, msgList, closedEarly, recvPc, sendPc>>

EnableQueued == \E i \in DOMAIN jobs : jobs[i] = "enable"

(* if (isEnabled()) disable(): an enable() that is still queued is missed. *)
Query == /\ chatPc = "query"
         /\ MutexFree
         /\ jobs' = IF nowEnabled THEN Append(jobs, "disable") ELSE jobs
         /\ closedEarly' = (closedEarly \/ EnableQueued)
         /\ chat' = "none"
         /\ chatPc' = "idle"
         /\ UNCHANGED <<mainPc, nowEnabled, radio, driver, leftOn, msgList, receiving,
                        recvPc, sendPc>>

(* The send handler: LVGL, then the mutex *)
Press == /\ chat = "shown"
         /\ LvglFree
         /\ sendPc' = "send"
         /\ UNCHANGED <<mainVars, chatVars, recvPc>>

Send == /\ sendPc = "send"
        /\ MutexFree
        /\ sendPc' = "idle"
        /\ UNCHANGED <<mainVars, chatVars, recvPc>>

-----------------------------------------------------------------------------
(* onReceive(): the mutex, then LVGL.  The driver calls it as soon as it has been
   registered, and asks nobody whether Chat is shown.                         *)

Receive == /\ recvPc = "idle"
           /\ MutexFree
           /\ nowEnabled \/ driver = "espnow"
           /\ receiving
           /\ recvPc' = "want"
           /\ UNCHANGED <<mainVars, chatVars, sendPc>>

ReceiveLock == /\ recvPc = "want"
               /\ LvglFree
               /\ recvPc' = "draw"
               /\ UNCHANGED <<mainVars, chatVars, sendPc>>

ReceiveDraw == /\ recvPc = "draw"
               /\ recvPc' = "idle"
               /\ UNCHANGED <<mainVars, chatVars, sendPc>>

ChatStep == Subscribe \/ Unsubscribe \/ Query
ReceiveStep == ReceiveLock \/ ReceiveDraw

Next == \/ MainStep
        \/ \E job \in {"wifiOn", "wifiOff"} : UserWifi(job)
        \/ Create \/ Show \/ Hide \/ Redraw \/ Destroy \/ ChatStep
        \/ Press \/ Send \/ Receive \/ ReceiveStep

Spec == Init /\ [][Next]_vars

(* The threads run, and get the locks they wait for in the end. *)
Fairness == /\ SF_vars(MainStep) /\ SF_vars(ChatStep)
            /\ SF_vars(Send) /\ SF_vars(ReceiveStep)

FairSpec == Spec /\ Fairness

-----------------------------------------------------------------------------
EspNowTypeOK ==
    /\ jobs \in Seq({"wifiOn", "wifiOff", "enable", "disable"})
    /\ mainPc \in {"idle", "poll", "setup"}
    /\ radio \in {"On", "Off"} /\ driver \in {"none", "wifi", "espnow"}
    /\ chat \in {"none", "created", "shown", "hidden"}
    /\ chatPc \in {"idle", "subscribe", "unsubscribe", "query"}
    /\ recvPc \in {"idle", "want", "draw"} /\ sendPc \in {"idle", "send"}
    /\ msgList \in {"none", "live", "dead"}
    /\ {nowEnabled, receiving, closedEarly, leftOn} \subseteq BOOLEAN

(* ESP-NOW and the Wi-Fi service do not use the radio at the same time, unless
   Chat was closed before its enable() was executed.                       *)
OneRadioUser == nowEnabled /\ ~closedEarly => radio = "Off" /\ driver = "espnow"

(* With Chat closed and the jobs done, ESP-NOW is off, with that exception, and has left
   the driver to others unless a call of it failed.                                *)
OffWhenClosed ==
    chat = "none" /\ chatPc = "idle" /\ jobs = <<>> /\ mainPc = "idle" /\ ~closedEarly
        => ~nowEnabled /\ (driver = "espnow" => leftOn)

(* What is received is delivered to an app that exists, and drawn on its list while the
   app is shown.  Nothing keeps it from being drawn before or after that, when there is
   no list, or one that was deleted.                                               *)
DeliversToLiveApp == /\ recvPc # "idle" => chat # "none" /\ chatPc # "query"
                     /\ recvPc = "draw" /\ chat = "shown" => msgList = "live"

(* The one deadlock: the send handler and the receiver take the mutex and the
   LVGL lock in opposite orders.                                           *)
SendMeetsReceive == sendPc = "send" /\ recvPc = "want"

(* The hooks and the send handler end, but for it. *)
ChatGoesOn == /\ chatPc # "idle" ~> (chatPc = "idle" \/ SendMeetsReceive)
              /\ sendPc # "idle" ~> (sendPc = "idle" \/ SendMeetsReceive)
=============================================================================
