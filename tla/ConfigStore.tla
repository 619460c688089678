----------------------------- MODULE ConfigStore -----------------------------
(***************************************************************************)
(* The configuration in NVS (src/main/config_store.c), the handlers of the *)
(* portal that change it (src/main/http_portal.c) and what a start makes   *)
(* of it (src/main/mode_mgr.c).                                            *)
(*                                                                         *)
(* Every request, and every start, is a sequence of groups: some writes    *)
(* and a commit.  A call that fails ends its group and leaves the writes   *)
(* before it pending.  Reads see pending writes; what becomes of them when *)
(* power fails is up to NVS (external): each write is atomic and they take *)
(* effect in order, but only commit promises that they have.  The portal   *)
(* has one task, so requests follow one another; power may fail anywhere,  *)
(* and a restart that was asked for comes at any time.                     *)
(*                                                                         *)
(* Abstracted: a network is the same value as name and as password of its  *)
(* pair; each group of settings is one value; random secrets are numbers   *)
(* nobody remembers; requests refused for authentication change nothing.   *)
(***************************************************************************)
EXTENDS Integers, Sequences, FiniteSets

CONSTANTS
  Nets,        \* networks
  None,        \* an empty string
  Options,     \* values of a group of settings
  Default,     \* the value an absent group has
  Early, Late, \* groups h_config saves before and after the password:
               \* "modes", "general" and "api", "netip"
  Secrets,     \* the random secrets that are modelled
  MaxRequests, \* bound of the model: requests that may change something
  MaxFails,    \* bound of the model: failing calls of NVS
  MaxCrashes   \* bound of the model: power failures

ASSUME NoneAssumption    == None \notin Nets /\ None \notin Nat
ASSUME DefaultAssumption == Default \in Options
ASSUME SettingsAssumption ==
  Early \in Seq({"modes", "general"}) /\ Late \in Seq({"api", "netip"})
ASSUME SecretsAssumption ==
  /\ {"admin_pass", "tcp_token"} \subseteq Secrets
  /\ Secrets \subseteq {"ap_pass", "admin_pass", "tcp_token", "ota_token"}
ASSUME BoundsAssumption == MaxRequests \in Nat /\ MaxFails \in Nat /\ MaxCrashes \in Nat

VARIABLES
  defect,   \* what fails for good: "reads" of NVS, "init" of NVS, or "no"
  flash,    \* what a power failure now would leave for certain
  pend,     \* writes not committed, each a function from keys to values
  job,      \* the request (or start) under way, and what it will promise
  todo,     \* groups it has still to execute
  failed,   \* names of its groups that failed
  sta,      \* the pair this run connects with, or None: provisioning
  token,    \* s_token of the TCP server
  restart,  \* a restart is scheduled
  trouble,  \* history: NVS has failed since the start
  cut,      \* history: the last save of the pair was cut short
  promised, \* history: values the owner was told and has not changed since
  requests, fails, crashes

vars == <<defect, flash, pend, job, todo, failed, sta, token, restart, trouble, cut, promised, requests, fails, crashes>>

SettingKeys == {Early[i] : i \in DOMAIN Early} \cup {Late[i] : i \in DOMAIN Late}
Keys == {"wifi_ssid", "wifi_pass", "provisioned"} \cup SettingKeys \cup Secrets

(* f overlaid with the values of g; f without the keys in S. *)
Overlay(f, g) == [k \in DOMAIN f \cup DOMAIN g |-> IF k \in DOMAIN g THEN g[k] ELSE f[k]]
Without(f, S) == [k \in DOMAIN f \ S |-> f[k]]
Value(k, v)   == [x \in {k} |-> v]
Nothing       == [x \in {} |-> None]

(* flash after the first n pending writes: of each key the last one. *)
Writes(n, k)    == {i \in 1 .. n : k \in DOMAIN pend[i]}
LastWrite(n, k) == CHOOSE i \in Writes(n, k) : \A j \in Writes(n, k) : j <= i
Applied(n) ==
  [k \in Keys |-> IF Writes(n, k) = {} THEN flash[k] ELSE pend[LastWrite(n, k)][k]]
Seen == Applied(Len(pend))

Erased == [k \in Keys |-> IF k = "provisioned" THEN FALSE
                          ELSE IF k \in SettingKeys THEN Default ELSE None]

(* What an erasure that is cut short may have done (settings and secrets   *)
(* go together in the model).                                              *)
Parts == {S \cup T : S \in SUBSET {"wifi_ssid", "wifi_pass", "provisioned"},
                     T \in {{}, SettingKeys \cup Secrets}}
ErasedIn(f, S) == [k \in Keys |-> IF k \in S THEN Erased[k] ELSE f[k]]

(* A random secret: differs from every one that is still around. *)
Fresh(k) ==
  LET held == {flash[k], token} \cup {pend[i][k] : i \in {j \in DOMAIN pend : k \in DOMAIN pend[j]}}
              \cup {promised[x] : x \in {k} \cap DOMAIN promised}
  IN  CHOOSE n \in 1 .. Cardinality(held) + 1 : n \notin held

Defects == {"no", "reads", "init"}

Off  == [kind |-> "off", gives |-> Nothing]
Idle == [kind |-> "idle", gives |-> Nothing]
Group(name, writes) == [name |-> name, writes |-> writes]

Init ==
  /\ defect \in Defects
  /\ flash = Erased /\ pend = <<>>
  /\ job = Off /\ todo = <<>> /\ failed = {}
  /\ sta = None /\ token = None /\ restart = FALSE /\ trouble = FALSE
  /\ cut = FALSE /\ promised = Nothing /\ requests = 0 /\ fails = 0 /\ crashes = 0

-----------------------------------------------------------------------------
(* config_load with ensure_random_defaults and sanity_check_and_fix: what  *)
(* it returns, and the writes that make NVS agree with that.               *)

Missing  == {k \in Secrets : Seen[k] = None}
HalfPair == Seen["provisioned"] /\ (Seen["wifi_ssid"] = None \/ Seen["wifi_pass"] = None)

Loaded ==
  [k \in Keys |-> IF k \in Missing THEN Fresh(k)
                  ELSE IF k = "provisioned" THEN Seen[k] /\ ~HalfPair ELSE Seen[k]]

NewSecret(k) == IF k \in Missing THEN <<Value(k, Loaded[k])>> ELSE <<>>
NewSecrets ==
  NewSecret("ap_pass") \o NewSecret("admin_pass") \o NewSecret("tcp_token") \o NewSecret("ota_token")

LoadGroups ==
  (IF Missing = {} THEN <<>> ELSE <<Group("secrets", NewSecrets)>>)
  \o (IF HalfPair THEN <<Group("sanity", <<Value("provisioned", FALSE)>>)>> ELSE <<>>)

Begin(kind, gives, groups) ==
  job' = [kind |-> kind, gives |-> gives] /\ todo' = groups /\ failed' = {}

-----------------------------------------------------------------------------
(* A start: mode_mgr_start.  ESP_ERROR_CHECK aborts it, and the next start *)
(* follows.                                                                *)

(* A failing call of NVS at a start; the failure may be there to stay.     *)
NvsFails(kind) ==
  /\ job = Off /\ (defect = kind \/ fails < MaxFails)
  /\ fails' = IF defect = kind THEN fails ELSE fails + 1
  /\ defect' \in {defect, kind}

(* Fault: NVS is erased whatever nvs_flash_init fails for. *)
StartErasesBlindly ==
  /\ NvsFails("init")
  /\ flash' = Erased
  /\ UNCHANGED <<pend, job, todo, failed, sta, token, restart, trouble, cut, promised, requests, crashes>>

(* nvs_flash_init fails, as it does again after an erasure: abort. *)
StartAborts ==
  /\ NvsFails("init")
  /\ UNCHANGED <<flash, pend, job, todo, failed, sta, token, restart, trouble, cut, promised, requests, crashes>>

(* NVS has no free pages, or those of a newer version: all of it is        *)
(* erased, and every promise with it.  Of an erasure that fails, or that   *)
(* power cuts short, any part is done.                                     *)
StartErases ==
  /\ job = Off /\ fails < MaxFails /\ fails' = fails + 1
  /\ \E S \in Parts : flash' = ErasedIn(flash, S)
  /\ promised' = Nothing
  /\ UNCHANGED <<defect, pend, job, todo, failed, sta, token, restart, trouble, cut, requests, crashes>>

(* In provisioning the console shows the secrets. *)
Boot ==
  /\ job = Off /\ defect = "no"
  /\ sta' = IF Loaded["provisioned"] THEN <<Loaded["wifi_ssid"], Loaded["wifi_pass"]>> ELSE None
  /\ token' = Loaded["tcp_token"]
  /\ Begin("boot", [k \in IF sta' = None THEN Secrets ELSE {} |-> Loaded[k]], LoadGroups)
  /\ UNCHANGED <<defect, flash, pend, restart, trouble, cut, promised, requests, fails, crashes>>

(* Fault: a start that cannot read NVS ends in a reset. *)
BootBlindAborts ==
  /\ defect # "init" /\ NvsFails("reads")
  /\ UNCHANGED <<flash, pend, job, todo, failed, sta, token, restart, trouble, cut, promised, requests, crashes>>

(* NVS cannot be read: provisioning, with secrets for this run.            *)
BootBlind ==
  /\ defect # "init" /\ NvsFails("reads")
  /\ sta' = None /\ token' = Fresh("tcp_token")
  /\ job' = Idle /\ trouble' = TRUE
  /\ UNCHANGED <<flash, pend, todo, failed, restart, cut, promised, requests, crashes>>

-----------------------------------------------------------------------------
(* Requests.                                                               *)

(* Every handler loads the configuration first, for require_auth; what it  *)
(* cannot load it answers with 500.  Nothing is promised any more about    *)
(* what a request is to change.                                            *)
Request(kind, touches, gives, groups) ==
  /\ job = Idle /\ defect = "no"
  /\ requests < MaxRequests /\ requests' = requests + 1
  /\ Begin(kind, gives, LoadGroups \o groups)
  /\ promised' = Without(promised, touches)
  /\ UNCHANGED <<defect, flash, pend, sta, token, restart, trouble, cut, fails, crashes>>

(* Handlers that only read, and h_config when it refuses a port, a length  *)
(* or half a pair.                                                         *)
Browse == Request("browse", {}, Nothing, <<>>)

Pair(net) == [k \in {"wifi_ssid", "wifi_pass", "provisioned"} |->
                IF k = "provisioned" THEN TRUE ELSE net]

(* Fault: a password that is there already is kept. *)
SaveWifiKeepsPassword(net) ==
  Group("wifi", <<Value("wifi_ssid", net)>>
                \o (IF Seen["wifi_pass"] = None THEN <<Value("wifi_pass", net)>> ELSE <<>>)
                \o <<Value("provisioned", TRUE)>>)

SaveWifi(net) ==
  Group("wifi", <<Value("wifi_ssid", net), Value("wifi_pass", net), Value("provisioned", TRUE)>>)

(* config_save_modes, _general, _integrations, _netip. *)
SaveSettings(k, v) == Group(k, <<Value(k, v)>>)

(* config_regen_tcp_token, config_regen_ota_token. *)
SaveToken(k, new) == Group(k, <<new>>)

SaveAdminPass(new) == Group("admin_pass", <<new>>)

(* h_config behind its checks: the pair if it was sent, every group - with *)
(* the value it had if it was not - and the password of the portal.        *)
Config(net, sent, pass) ==
  LET value(k)    == IF k \in DOMAIN sent THEN sent[k] ELSE Seen[k]
      saves(keys) == [i \in DOMAIN keys |-> SaveSettings(keys[i], value(keys[i]))]
      gives       == Overlay(Overlay(sent, pass), IF net = None THEN Nothing ELSE Pair(net))
  IN  Request("config", DOMAIN gives, gives,
        (IF net = None THEN <<>> ELSE <<SaveWifi(net)>>)
        \o saves(Early)
        \o (IF pass = Nothing THEN <<>> ELSE <<SaveAdminPass(pass)>>)
        \o saves(Late))

(* h_regen_token, h_regen_ota_token. *)
Regen(k) ==
  LET new == Value(k, Fresh(k))
  IN  Request("regen", {k}, new, <<SaveToken(k, new)>>)

(* h_factory.  The devices of module DeviceStore go, too, if they can. *)
Factory ==
  Request("factory", Keys, Without(Erased, Secrets), <<Group("erase", <<Erased>>)>>)

Reboot ==
  /\ job = Idle /\ defect = "no" /\ restart' = TRUE
  /\ requests < MaxRequests /\ requests' = requests + 1
  /\ UNCHANGED <<defect, flash, pend, job, todo, failed, sta, token, trouble, cut, promised, fails, crashes>>

-----------------------------------------------------------------------------
(* The calls a request makes.                                              *)

Busy == todo # <<>>
This == Head(todo)

Write ==
  /\ Busy /\ This.writes # <<>>
  /\ pend' = Append(pend, Head(This.writes))
  /\ todo' = <<Group(This.name, Tail(This.writes))>> \o Tail(todo)
  /\ UNCHANGED <<defect, flash, job, failed, sta, token, restart, trouble, cut, promised, requests, fails, crashes>>

Commit ==
  /\ Busy /\ This.writes = <<>>
  /\ flash' = Seen /\ pend' = <<>>
  /\ todo' = Tail(todo)
  /\ cut' = (cut /\ This.name # "wifi")
  /\ UNCHANGED <<defect, job, failed, sta, token, restart, trouble, promised, requests, fails, crashes>>

(* Opening, writing or committing fails.  Only a failed pair ends the      *)
(* request; a sanity write that fails is followed by its commit.           *)
CallFails ==
  /\ Busy
  /\ fails < MaxFails /\ fails' = fails + 1
  /\ todo' = CASE This.name = "wifi" -> <<>>
               [] This.name = "sanity" /\ This.writes # <<>> -> <<Group("sanity", <<>>)>> \o Tail(todo)
               [] OTHER -> Tail(todo)
  /\ failed' = failed \cup {This.name}
  /\ trouble' = TRUE
  /\ cut' = (cut \/ This.name = "wifi")
  /\ UNCHANGED <<defect, flash, pend, job, sta, token, restart, promised, requests, crashes>>

(* Fault: only the pair decides about the answer. *)
DoneUnlessPair == IF job.kind = "boot" THEN failed = {} ELSE "wifi" \notin failed

(* What the answer says: done, or an error.  A portal password that could  *)
(* not be saved is not reported (http_portal.c:384).                       *)
Done == CASE job.kind = "boot"   -> "secrets" \notin failed
          [] job.kind = "config" -> failed \cap ({"wifi"} \cup SettingKeys) = {}
          [] OTHER               -> failed \ {"secrets", "sanity"} = {}

(* Fault: the TCP server is not told. *)
AnswerKeepsToken ==
  /\ job \notin {Off, Idle} /\ ~Busy
  /\ promised' = IF Done THEN Overlay(promised, Without(job.gives, failed)) ELSE promised
  /\ restart' = (restart \/ (job.kind = "factory" /\ Done))
  /\ job' = Idle /\ failed' = {}
  /\ UNCHANGED <<defect, flash, pend, todo, sta, token, trouble, cut, requests, fails, crashes>>

Answer ==
  /\ job \notin {Off, Idle} /\ ~Busy
  /\ promised' = IF Done THEN Overlay(promised, Without(job.gives, failed)) ELSE promised
  /\ token' = IF job.kind = "regen" /\ Done /\ "tcp_token" \in DOMAIN job.gives
              THEN job.gives["tcp_token"] ELSE token
  /\ restart' = (restart \/ (job.kind = "factory" /\ Done))
  /\ job' = Idle /\ failed' = {}
  /\ UNCHANGED <<defect, flash, pend, todo, sta, trouble, cut, requests, fails, crashes>>

-----------------------------------------------------------------------------
(* The end of a run.                                                       *)

(* Of the pending writes the first n have reached the flash, and of an     *)
(* erasure any part.                                                       *)
Stop ==
  /\ \E n \in 0 .. Len(pend) :
       \/ flash' = Applied(n)
       \/ /\ n < Len(pend) /\ DOMAIN pend[n + 1] = Keys
          /\ \E S \in Parts : flash' = ErasedIn(Applied(n), S)
  /\ cut' = (cut \/ (Busy /\ This.name = "wifi"))
  /\ pend' = <<>> /\ job' = Off /\ todo' = <<>> /\ failed' = {}
  /\ sta' = None /\ token' = None /\ restart' = FALSE /\ trouble' = FALSE
  /\ UNCHANGED <<defect, promised, requests, fails>>

PowerFails == crashes < MaxCrashes /\ crashes' = crashes + 1 /\ Stop

(* 500 ms after the answer, or at once; whatever is under way then. *)
Restart == restart /\ Stop /\ UNCHANGED crashes

Requests ==
  \/ Browse \/ Factory \/ Reboot
  \/ \E net \in Nets \cup {None}, v \in Options \cup {None}, change \in BOOLEAN :
       Config(net, [k \in IF v = None THEN {} ELSE SettingKeys |-> v],
              IF change THEN Value("admin_pass", Fresh("admin_pass")) ELSE Nothing)
  \/ \E k \in Secrets \cap {"tcp_token", "ota_token"} : Regen(k)

Next == StartAborts \/ StartErases \/ Boot \/ BootBlind \/ Requests \/ Write \/ Commit \/ CallFails \/ Answer
        \/ PowerFails \/ Restart

Spec == Init /\ [][Next]_vars

(* The tasks run, and nvs_flash_init succeeds in the end unless it fails   *)
(* for good.                                                               *)
FairSpec == Spec /\ WF_vars(Boot \/ BootBlind \/ Write \/ Commit \/ CallFails \/ Answer)

-----------------------------------------------------------------------------
Allowed(k) == CASE k \in {"wifi_ssid", "wifi_pass"} -> Nets \cup {None}
              [] k = "provisioned" -> BOOLEAN
              [] k \in SettingKeys -> Options
              [] OTHER -> Nat \cup {None}

Partial(f) == DOMAIN f \subseteq Keys /\ \A k \in DOMAIN f : f[k] \in Allowed(k)

(* Types; between requests nothing of the last one is left.                *)
TypeOK ==
  /\ defect \in Defects
  /\ DOMAIN flash = Keys /\ Partial(flash)
  /\ \A i \in DOMAIN pend : Partial(pend[i])
  /\ job.kind \in {"off", "idle", "boot", "browse", "config", "regen", "factory"}
  /\ Partial(job.gives)
  /\ \A i \in DOMAIN todo : \A j \in DOMAIN todo[i].writes : Partial(todo[i].writes[j])
  /\ (job \in {Off, Idle} => todo = <<>> /\ failed = {})
  /\ sta \in {None} \cup ((Nets \cup {None}) \X (Nets \cup {None}))
  /\ token \in Nat \cup {None} /\ Partial(promised)
  /\ {restart, trouble, cut} \subseteq BOOLEAN
  /\ requests \in 0 .. MaxRequests /\ fails \in 0 .. MaxFails /\ crashes \in 0 .. MaxCrashes

(* What the owner was told - a saved setting or network, a reset to        *)
(* factory state, a token, the secrets on the console - holds, on flash,   *)
(* through failures, restarts and later requests, until it is changed; or  *)
(* until a start finds NVS without free pages, or of a newer version, and  *)
(* erases it (mode_mgr.c:322-325).                                         *)
KeptPromises == \A k \in DOMAIN promised : flash[k] = promised[k]

(* The station is never started with half a pair, also after a save or an  *)
(* erasure that power cut short (config_store.c:97-113).                   *)
NormalHasNetwork == sta # None => sta[1] # None /\ sta[2] # None

(* Name and password belong together (config_store.h:66-68) unless the     *)
(* last save of the pair was itself cut short.                             *)
QuietPairs ==
  ~cut /\ flash["wifi_ssid"] # None /\ flash["wifi_pass"] # None
    => flash["wifi_ssid"] = flash["wifi_pass"]

(* Types, and whole pairs.                                                 *)
Safety == TypeOK /\ NormalHasNetwork /\ QuietPairs

(* The TCP server asks for the token that is stored (http_portal.c:423-425)*)
(* unless NVS failed in this run or a restart is about to come.            *)
QuietTokenAgrees ==
  job = Idle /\ sta # None /\ ~trouble /\ ~restart => token = flash["tcp_token"]

(* No failing read or write, and nothing that failures have left in NVS,   *)
(* keeps the gateway in a loop of restarts or in a request: it comes to    *)
(* wait for requests again (config_store.c:57-60, 125-127, mode_mgr.c:     *)
(* 357-360), unless nvs_flash_init fails for good (mode_mgr.c:323-326).    *)
(* While NVS cannot be read it is the console and the access point that    *)
(* are there; the portal answers 500 (http_portal.c:104-113).              *)
StartsThrough == []<>(job = Idle \/ defect = "init")

=============================================================================
