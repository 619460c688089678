------------------------------ MODULE WifiBoot ------------------------------
(***************************************************************************)
(* How the gateway gets on the network: the start-up in                    *)
(* src/main/mode_mgr.c and the station in src/main/wifi_sta.c.             *)
(*                                                                         *)
(* Three tasks share the station's state: the main task (start-up, waits   *)
(* for event bits, may shut the station down again), the event task        *)
(* (on_event) and the timer task (reconnect_cb).  The driver and the       *)
(* router are external: an attempt to connect ends in an event, an         *)
(* association gets an address or breaks, and events are handled in order. *)
(* on_event writes to the event log, and may wait there, before it decides *)
(* what a lost connection means; that makes it two steps.  Unregistering   *)
(* the handler waits for the end of a call under way.                      *)
(*                                                                         *)
(* Abstracted: names and addresses, all set-up that cannot be observed     *)
(* later, and time - the timer and both waits may end at any moment.       *)
(***************************************************************************)
EXTENDS Integers, Sequences

CONSTANTS
  AuthFailLimit,   \* WIFI_AUTH_FAIL_LIMIT
  MinMs, MaxMs,    \* WIFI_RECONNECT_MIN_MS, WIFI_RECONNECT_MAX_MS
  MaxNoise,        \* bound of the model: failures of a good connection
  MaxOutages,      \* bound of the model: how often the router goes away
  MaxResets        \* bound of the model: restarts of the gateway

ASSUME AuthFailLimitAssumption == AuthFailLimit \in Nat \ {0}
ASSUME DelaysAssumption == MinMs \in Nat \ {0} /\ MaxMs \in Nat /\ MinMs <= MaxMs
ASSUME BoundsAssumption == MaxNoise \in Nat /\ MaxOutages \in Nat /\ MaxResets \in Nat

VARIABLES
  \* what the flash and the air hold
  cfg,       \* provisioned?, are the credentials good?, a static address?
  router,    \* the router can be reached
  noise, outages, resets,
  \* the driver
  link,      \* "off", "down", "trying", "assoc" (no address yet), "ip"
  queue,     \* events not handled yet
  \* wifi_sta.c
  handler,   \* on_event is registered
  disc,      \* the disconnection on_event is working on, or "none"
  timer,     \* s_reconnect_timer: "none", "idle" or "armed"
  timed,     \* history: this run could create it
  backoff,   \* s_backoff_ms
  bits,      \* s_wifi_evt
  authFails, \* s_auth_fails
  ever,      \* s_ever_connected
  \* mode_mgr.c
  main,      \* where the main task stands
  todo,      \* services it has still to start
  up,        \* services that run
  broken,    \* services that could not be started
  open       \* s_ap_mode: the portal asks for no password

air     == <<cfg, router, noise, outages, resets>>
driver  == <<link, queue>>
station == <<handler, disc, timer, timed, backoff, bits, authFails, ever>>
mode    == <<main, todo, up, broken, open>>
vars    == <<air, driver, station, mode>>

Reasons == {"auth", "other"}  \* reason_is_auth() or not
Events  == {"start", "connected", "got_ip"} \cup Reasons

Init ==
  /\ cfg \in [provisioned : BOOLEAN, good : BOOLEAN, static : BOOLEAN]
  /\ router \in BOOLEAN /\ noise = 0 /\ outages = 0 /\ resets = 0
  /\ link = "off" /\ queue = <<>>
  /\ handler = FALSE /\ disc = "none" /\ timer = "none" /\ timed = FALSE /\ backoff = MinMs
  /\ bits = {} /\ authFails = 0 /\ ever = FALSE
  /\ main = "boot" /\ todo = <<>> /\ up = {} /\ broken = {} /\ open = FALSE

-----------------------------------------------------------------------------
(* The driver.                                                             *)

(* esp_wifi_connect: begins an attempt, unless one is under way. *)
Connect == link' = IF link = "down" THEN "trying" ELSE link

Post(e) == queue' = IF handler THEN Append(queue, e) ELSE queue

AttemptSucceeds ==
  /\ link = "trying" /\ router /\ cfg.good
  /\ link' = "assoc" /\ Post("connected")
  /\ UNCHANGED <<air, station, mode>>

(* No router, a wrong password, or bad luck. *)
AttemptFails ==
  /\ link = "trying"
  /\ \E r \in Reasons :
       /\ \/ ~router /\ r = "other" /\ UNCHANGED noise
          \/ router /\ ~cfg.good /\ r = "auth" /\ UNCHANGED noise
          \/ router /\ noise < MaxNoise /\ noise' = noise + 1
       /\ Post(r)
  /\ link' = "down"
  /\ UNCHANGED <<cfg, router, outages, resets, station, mode>>

(* With a static address the event may fail to come (wifi_sta.c:82). *)
GetAddress ==
  /\ link = "assoc"
  /\ link' = "ip"
  /\ \/ Post("got_ip")
     \/ cfg.static /\ UNCHANGED queue
  /\ UNCHANGED <<air, station, mode>>

LinkLost ==
  /\ link \in {"assoc", "ip"}
  /\ \/ ~router /\ UNCHANGED noise
     \/ router /\ noise < MaxNoise /\ noise' = noise + 1
  /\ link' = "down"
  /\ \E r \in Reasons : Post(r)
  /\ UNCHANGED <<cfg, router, outages, resets, station, mode>>

RouterGoes ==
  /\ router /\ outages < MaxOutages
  /\ router' = FALSE /\ outages' = outages + 1
  /\ UNCHANGED <<cfg, noise, resets, driver, station, mode>>

RouterComes ==
  /\ ~router /\ router' = TRUE
  /\ UNCHANGED <<cfg, noise, outages, resets, driver, station, mode>>

-----------------------------------------------------------------------------
(* The event task: on_event.                                               *)

Arriving(e) == handler /\ disc = "none" /\ queue # <<>> /\ Head(queue) = e
               /\ queue' = Tail(queue)

OnStart ==
  /\ Arriving("start")
  /\ backoff' = MinMs /\ Connect
  /\ UNCHANGED <<air, timed, handler, disc, timer, bits, authFails, ever, mode>>

Online ==
  /\ authFails' = 0 /\ backoff' = MinMs /\ ever' = TRUE
  /\ bits' = bits \cup {"connected"}

OnConnected ==
  /\ Arriving("connected")
  /\ IF cfg.static THEN Online ELSE UNCHANGED <<authFails, backoff, ever, bits>>
  /\ UNCHANGED <<air, timed, link, handler, disc, timer, mode>>

OnGotIp ==
  /\ Arriving("got_ip")
  /\ Online
  /\ UNCHANGED <<air, timed, link, handler, disc, timer, mode>>

(* The address and the bit go first; then the event is logged. *)
OnDisconnected ==
  /\ \E r \in Reasons : Arriving(r) /\ disc' = r
  /\ bits' = bits \ {"connected"}
  /\ UNCHANGED <<air, timed, link, handler, timer, backoff, authFails, ever, mode>>

Doubled(ms) == IF 2 * ms > MaxMs THEN MaxMs ELSE 2 * ms

(* Fault: tries again at once. *)
ScheduleReconnectAtOnce == Connect /\ UNCHANGED <<timer, backoff>>

ScheduleReconnect ==
  IF timer = "none"
  THEN Connect /\ UNCHANGED <<timer, backoff>>
  ELSE timer' = "armed" /\ backoff' = Doubled(backoff) /\ UNCHANGED link

(* Fault: counts failures of the password after a connection, too. *)
DecideAlways ==
  /\ disc # "none" /\ disc' = "none"
  /\ IF disc = "auth"
     THEN /\ authFails' = authFails + 1
          /\ IF authFails' >= AuthFailLimit
             THEN bits' = bits \cup {"fail"} /\ UNCHANGED <<link, timer, backoff>>
             ELSE ScheduleReconnect /\ UNCHANGED bits
     ELSE ScheduleReconnect /\ UNCHANGED <<authFails, bits>>
  /\ UNCHANGED <<air, timed, queue, handler, ever, mode>>

(* Fault: goes on trying after it gave up. *)
DecideGoesOn ==
  /\ disc # "none" /\ disc' = "none"
  /\ IF ~ever /\ disc = "auth"
     THEN /\ authFails' = IF authFails = AuthFailLimit THEN authFails ELSE authFails + 1
          /\ bits' = IF authFails' >= AuthFailLimit THEN bits \cup {"fail"} ELSE bits
     ELSE UNCHANGED <<authFails, bits>>
  /\ ScheduleReconnect
  /\ UNCHANGED <<air, timed, queue, handler, ever, mode>>

(* Fault: an absent router is left to the driver. *)
DecideWithoutRouter ==
  /\ disc # "none" /\ disc' = "none"
  /\ IF ~ever /\ disc = "auth"
     THEN /\ authFails' = authFails + 1
          /\ IF authFails' >= AuthFailLimit
             THEN bits' = bits \cup {"fail"} /\ UNCHANGED <<link, timer, backoff>>
             ELSE ScheduleReconnect /\ UNCHANGED bits
     ELSE IF ever THEN ScheduleReconnect /\ UNCHANGED <<authFails, bits>>
                  ELSE UNCHANGED <<authFails, bits, link, timer, backoff>>
  /\ UNCHANGED <<air, timed, queue, handler, ever, mode>>

(* A lost connection is always tried again; before the first one, too many *)
(* failures of the password end the attempts.                              *)
Decide ==
  /\ disc # "none" /\ disc' = "none"
  /\ IF ~ever /\ disc = "auth"
     THEN /\ authFails' = authFails + 1
          /\ IF authFails' >= AuthFailLimit
             THEN bits' = bits \cup {"fail"} /\ UNCHANGED <<link, timer, backoff>>
             ELSE ScheduleReconnect /\ UNCHANGED bits
     ELSE ScheduleReconnect /\ UNCHANGED <<authFails, bits>>
  /\ UNCHANGED <<air, timed, queue, handler, ever, mode>>

(* The timer task: reconnect_cb. *)
TimerFires ==
  /\ timer = "armed" /\ timer' = "idle"
  /\ Connect
  /\ UNCHANGED <<air, timed, queue, handler, disc, backoff, bits, authFails, ever, mode>>

-----------------------------------------------------------------------------
(* The main task: mode_mgr_start, run_normal, run_provisioning.            *)

NormalServices       == <<"mdns", "tcp", "portal", "usb", "net">>
ProvisioningServices == <<"ap", "dns", "portal", "beacon">>

Serve(services, asAp) == main' = "serve" /\ todo' = services /\ open' = asAp

(* The flag comes from config_load; if that fails, or no name is stored,  *)
(* it is not set.                                                         *)
BootUnprovisioned ==
  /\ main = "boot"
  /\ Serve(ProvisioningServices, TRUE)
  /\ UNCHANGED <<air, driver, station, up, broken>>

(* wifi_sta_start_and_wait up to the wait.  Whether the timer could be      *)
(* created is not looked at.                                               *)
BootStation ==
  /\ main = "boot" /\ cfg.provisioned
  /\ main' = "wait45"
  /\ timer' \in {"idle", "none"} /\ timed' = (timer' = "idle")
  /\ handler' = TRUE /\ backoff' = MinMs
  /\ bits' = {} /\ authFails' = 0
  /\ link' = "down" /\ queue' = <<"start">>
  /\ UNCHANGED <<air, disc, ever, todo, up, broken, open>>

(* Nothing for 45 s, and then for 60 s again and again. *)
WaitTimesOut ==
  /\ main = "wait45" /\ bits = {}
  /\ main' = "wait60"
  /\ UNCHANGED <<air, driver, station, todo, up, broken, open>>

WaitSucceeds ==
  /\ main \in {"wait45", "wait60"} /\ "connected" \in bits
  /\ Serve(NormalServices, FALSE)
  /\ UNCHANGED <<air, driver, station, up, broken>>

WaitFails ==
  /\ main \in {"wait45", "wait60"} /\ bits = {"fail"}
  /\ main' = "stop"
  /\ UNCHANGED <<air, driver, station, todo, up, broken, open>>

(* wifi_sta_stop: the timer, the handler, the driver. *)
StopTimer ==
  /\ main = "stop" /\ main' = "unregister"
  /\ timer' = "none"
  /\ UNCHANGED <<air, timed, driver, handler, disc, backoff, bits, authFails, ever, todo, up, broken, open>>

Unregister ==
  /\ main = "unregister" /\ disc = "none"
  /\ main' = "deinit"
  /\ handler' = FALSE /\ queue' = <<>>
  /\ UNCHANGED <<air, timed, link, disc, timer, backoff, bits, authFails, ever, todo, up, broken, open>>

Deinit ==
  /\ main = "deinit"
  /\ link' = "off" /\ bits' = {}
  /\ Serve(ProvisioningServices, TRUE)
  /\ UNCHANGED <<air, timed, queue, handler, disc, timer, backoff, authFails, ever, up, broken>>

Optional == {"tcp", "usb"}  \* the configuration may leave these out

(* A service that cannot be started is reported, and the others follow. *)
StartService ==
  /\ main = "serve"
  /\ IF todo = <<>>
     THEN main' = "done" /\ UNCHANGED <<todo, up, broken>>
     ELSE /\ todo' = Tail(todo)
          /\ \/ up' = up \cup {Head(todo)} /\ UNCHANGED broken
             \/ broken' = broken \cup {Head(todo)} /\ UNCHANGED up
             \/ Head(todo) \in Optional /\ UNCHANGED <<up, broken>>
          /\ UNCHANGED main
  /\ UNCHANGED <<air, driver, station, open>>

(* Power, the reboot button, or an ESP_ERROR_CHECK that fails. *)
Reset ==
  /\ resets < MaxResets /\ main # "boot"
  /\ resets' = resets + 1
  /\ link' = "off" /\ queue' = <<>>
  /\ handler' = FALSE /\ disc' = "none" /\ timer' = "none" /\ timed' = FALSE /\ backoff' = MinMs
  /\ bits' = {} /\ authFails' = 0 /\ ever' = FALSE
  /\ main' = "boot" /\ todo' = <<>> /\ up' = {} /\ broken' = {} /\ open' = FALSE
  /\ UNCHANGED <<cfg, router, noise, outages>>

Event == OnStart \/ OnConnected \/ OnGotIp \/ OnDisconnected \/ Decide
Main  == \/ BootUnprovisioned \/ BootStation
         \/ WaitTimesOut \/ WaitSucceeds \/ WaitFails
         \/ StopTimer \/ Unregister \/ Deinit \/ StartService
Driver == AttemptSucceeds \/ AttemptFails \/ GetAddress

Next == Event \/ Main \/ Driver \/ TimerFires
        \/ LinkLost \/ RouterGoes \/ RouterComes \/ Reset

Spec == Init /\ [][Next]_vars

(* The tasks run, the driver answers, and it notices an absent router. *)
Fairness == /\ WF_vars(Event) /\ WF_vars(Main) /\ WF_vars(TimerFires)
            /\ WF_vars(AttemptSucceeds \/ AttemptFails)
            /\ WF_vars(GetAddress) /\ WF_vars(~router /\ LinkLost)

FairSpec == Spec /\ Fairness

-----------------------------------------------------------------------------
Services == {NormalServices[i] : i \in DOMAIN NormalServices}
            \cup {ProvisioningServices[i] : i \in DOMAIN ProvisioningServices}

(* Types; the delay stays within its two limits whatever the history.      *)
TypeOK ==
  /\ cfg \in [provisioned : BOOLEAN, good : BOOLEAN, static : BOOLEAN]
  /\ router \in BOOLEAN /\ noise \in 0..MaxNoise
  /\ outages \in 0..MaxOutages /\ resets \in 0..MaxResets
  /\ link \in {"off", "down", "trying", "assoc", "ip"}
  /\ queue \in Seq(Events)
  /\ handler \in BOOLEAN /\ disc \in Reasons \cup {"none"}
  /\ timer \in {"none", "idle", "armed"} /\ timed \in BOOLEAN /\ backoff \in MinMs..MaxMs
  /\ bits \subseteq {"connected", "fail"}
  /\ authFails \in 0..AuthFailLimit /\ ever \in BOOLEAN
  /\ main \in {"boot", "wait45", "wait60", "stop", "unregister", "deinit", "serve", "done"}
  /\ todo \in Seq(Services) /\ up \subseteq Services /\ broken \subseteq Services
  /\ open \in BOOLEAN

Stopping == main \in {"stop", "unregister", "deinit"}

(* A station that has lost its connection always has something coming that *)
(* tries again - the timer, or an event whose handling arms it - unless it *)
(* has given the credentials up (the gateway once stayed dead after an     *)
(* outage, wifi_sta.c:101-104).                                            *)
AttemptPending ==
  handler /\ ~Stopping /\ "fail" \notin bits /\ link = "down"
    => \/ timer = "armed" \/ disc # "none"
       \/ \E i \in DOMAIN queue : queue[i] \in {"start"} \cup Reasons

(* A gateway that was connected since its start does not fall back to      *)
(* provisioning, whatever fails later (wifi_sta.c:26-29).                  *)
NoFallbackAfterUp == Stopping \/ open => ~ever

(* The portal that asks for no password is never offered while the station *)
(* is on the local network.                                                *)
OpenPortalOffLan == open => link = "off"

(* Only a password that failed often enough is a reason to fall back; a    *)
(* router that is merely absent is not (mode_mgr.c:264-270).               *)
FallbackNeedsAuth == Stopping => authFails = AuthFailLimit

(* Provisioning replaces the station only when its password is the reason, *)
(* only before a first connection, and never beside it.                    *)
FallbackJustified == NoFallbackAfterUp /\ FallbackNeedsAuth /\ OpenPortalOffLan

(* Whoever has given the credentials up is quiet: no attempt runs and none *)
(* is planned, so shutting the driver down cannot be overtaken by a call   *)
(* of esp_wifi_connect (wifi_sta.c:256-257).                               *)
GivenUpIsQuiet ==
  "fail" \in bits \/ link = "off"
    => timer # "armed" /\ disc = "none" /\ queue = <<>> /\ link \in {"down", "off"}

(* While the connection is up no attempt is planned, and the next outage   *)
(* starts with the short delay, however the last one ended.                *)
FreshOutage == "connected" \in bits => backoff = MinMs /\ timer # "armed"

(* Types, quiet when given up, and a fresh delay for every outage.         *)
Safety == TypeOK /\ GivenUpIsQuiet /\ FreshOutage

(* A lost connection is tried again by the timer, never straight from the  *)
(* event (wifi_sta.c:22-23), in every run that could create the timer      *)
(* (wifi_sta.c:159; without it every try comes straight from the event,    *)
(* wifi_sta.c:53).  Only the first attempt needs no delay, and one made    *)
(* while the station is being shut down.                                   *)
RetryPaced ==
  [][timed /\ link = "down" /\ link' = "trying" =>
       timer = "armed" \/ Stopping \/ (queue # <<>> /\ Head(queue) = "start")]_vars

(* If the router stays, the gateway ends on the network or, with           *)
(* credentials it has given up, in provisioning; it never stays in between.*)
Reachable ==
  <>[]router => <>[](main = "done" /\ (open \/ (link = "ip" /\ "connected" \in bits)))

=============================================================================
