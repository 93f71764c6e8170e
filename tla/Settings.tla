------------------------------- MODULE Settings -------------------------------
(***************************************************************************)
(* The settings of the device (src/main/settings.c, settings.h, web.c):    *)
(* boot fills in the ones that NVS does not have and then uses some of     *)
(* them; the web server changes them, by its API, which checks every       *)
(* value, and by the configuration form, which checks none.                *)
(*                                                                         *)
(* Abstracted: a text is its levels, the parts between slashes, and its    *)
(* size; the JSON of requests and answers; the settings of the Wi-Fi; the  *)
(* use of the counts of units (module PinAllocation) and of the memory     *)
(* guard (module DeviceUpdate).                                            *)
(***************************************************************************)
EXTENDS Integers, TopicPaths

CONSTANTS
  Unset,     \* the key is not in NVS
  Keys,      \* the settings that are in use
  Defaults,  \* Defaults[k]: S_DEFAULT_*
  Requests,  \* the bodies that users post to /api/setting/update
  Forms,     \* the values that users put into the configuration form
  MaxInputs  \* bound: requests, failures and restarts from outside

------------------------------------------------------------------------------
(* s_settings.  A number has the width it is stored with, a text the size   *)
(* of its buffer, in which a terminator must fit.  Numbers are integers     *)
(* less than 2^31, so that only a width of 16 bits matters.                 *)
Uint(bits) == [type |-> "number", bits |-> bits, max |-> 0]
Text(size) == [type |-> "text", bits |-> 0, max |-> size]

Table ==
  [ota_update_url |-> Text(256), ha_upd_intervl |-> Uint(32),
   mqtt_connect |-> Uint(16), mqtt_server |-> Text(128), mqtt_port |-> Uint(16),
   mqtt_protocol |-> Text(10), mqtt_user |-> Text(64), mqtt_password |-> Text(64),
   mqtt_prefix |-> Text(128), ha_prefix |-> Text(128), relay_refr_int |-> Uint(16),
   relay_ch_count |-> Uint(16), relay_sn_count |-> Uint(16),
   net_log_type |-> Uint(16), net_log_host |-> Text(256), net_log_port |-> Uint(16),
   net_log_stdout |-> Uint(16), memgrd_mode |-> Uint(16),
   memgrd_trshld |-> Uint(32), ota_upd_rescfg |-> Uint(16)]

(* The values that the handlers of the table let pass. *)
Between(low, high) == low .. high

Handler ==
  [ha_upd_intervl |-> Between(60000, 86400000), mqtt_connect |-> Between(0, 2),
   mqtt_port |-> Between(1, 65535), relay_refr_int |-> Between(1, 10000),
   relay_ch_count |-> Between(0, 15), relay_sn_count |-> Between(0, 8),
   net_log_type |-> Between(0, 3), net_log_port |-> Between(1, 65535),
   net_log_stdout |-> Between(0, 1), memgrd_mode |-> Between(0, 2),
   memgrd_trshld |-> Between(16384, 131072), ota_upd_rescfg |-> Between(0, 1)]

(* The order in which boot creates the settings, and the form stores them. *)
MqttKeys == <<"mqtt_connect", "mqtt_server", "mqtt_port", "mqtt_protocol",
              "mqtt_user", "mqtt_password", "mqtt_prefix", "ha_prefix">>
ServiceKeys == <<"ha_upd_intervl", "ota_update_url", "ota_upd_rescfg",
                 "net_log_type", "net_log_host", "net_log_port",
                 "net_log_stdout", "memgrd_mode", "memgrd_trshld">>
DeviceKeys == <<"relay_refr_int", "relay_ch_count", "relay_sn_count">>
FormKeys == <<"mqtt_server", "mqtt_port", "mqtt_protocol", "mqtt_user",
              "mqtt_password", "mqtt_prefix", "ha_prefix", "ha_upd_intervl",
              "mqtt_connect", "relay_refr_int", "relay_ch_count",
              "relay_sn_count", "ota_update_url", "net_log_type",
              "net_log_host", "net_log_port", "net_log_stdout">>

InUse(keys) == Without(keys, DOMAIN Table \ Keys)
BootOrder == InUse(MqttKeys \o ServiceKeys \o DeviceKeys)
FormOrder == InUse(FormKeys)

(* What NVS can hold for a key. *)
Texts == [levels : Seq(Level) \ {<< >>}, size : Nat]
Values(key) ==
  IF Table[key].type = "text" THEN {text \in Texts : text.size < Table[key].max}
  ELSE IF Table[key].bits = 16 THEN Between(0, 65535) ELSE Nat

(* What the handler of a key lets pass, of the values NVS can hold. *)
Handled(key, value) == key \in DOMAIN Handler => value \in Handler[key]


(* A JSON value: a number with its integer part, a string, or anything      *)
(* else.  cJSON gives every value but a number the integer part 0.          *)
Number(n) == [type |-> "number", value |-> n]
String(levels, size) == [type |-> "text", value |-> [levels |-> levels, size |-> size]]
EmptyText == [levels |-> <<Empty>>, size |-> 0]
ValueInt(json) == IF json.type = "number" THEN json.value ELSE 0

(* A JSON value that is a number is an integer, a text has levels.  A       *)
(* field of the form fits the buffer it is extracted to; where it is a      *)
(* number of 32 bits, its sign is not modelled.                             *)
IsJson(json) ==
  /\ json.type = "number" => json.value \in Int
  /\ json.type = "text" => json.value \in Texts
FormValues(key) ==
  IF Table[key].type = "number" /\ Table[key].bits = 16 THEN Int ELSE Values(key)

ASSUME KeysAssumption == Keys \subseteq DOMAIN Table
ASSUME DefaultsAssumption ==
  \A k \in Keys : Defaults[k] \in Values(k) /\ Handled(k, Defaults[k])
ASSUME RequestsAssumption ==
  \A r \in Requests :
     /\ Len(r.data) \in Nat /\ DOMAIN r.data = 1 .. Len(r.data)
     /\ \A i \in DOMAIN r.data : IsJson(r.data[i].json)
ASSUME FormsAssumption ==
  \A f \in Forms : \A k \in Keys : f[k] \in FormValues(k)
ASSUME BoundAssumption == MaxInputs \in Nat

VARIABLES
  phase,   \* app_main: "settings", "logging", "mqtt", "init" of its
           \* client, "wait" for the broker, or "run"
  bootKey, \* the place in BootOrder that boot has come to
  nvs,     \* nvs[k]: the value of the setting in NVS, or Unset
  web,     \* the request that the web server is working on
  rebooting, \* system_reboot_task runs
  typed,   \* the settings that were last written by the form (history)
  inputs   \* counts towards MaxInputs

settingsVars == <<phase, bootKey, nvs, web, rebooting, typed, inputs>>

Idle == [at |-> "idle"]
Serving == phase \in {"mqtt", "init", "wait", "run"}

SettingsInit ==
  /\ phase = "settings" /\ bootKey = 1
  /\ nvs \in {[k \in Keys |-> Unset], [k \in Keys |-> Defaults[k]]}
  /\ web = Idle /\ rebooting = FALSE
  /\ typed = {}
  /\ inputs = 0

Input == inputs < MaxInputs /\ inputs' = inputs + 1

(* esp_restart, and abort after a failed ESP_ERROR_CHECK: NVS remains. *)
Restart ==
  /\ phase' = "settings" /\ bootKey' = 1
  /\ web' = Idle /\ rebooting' = FALSE
  /\ UNCHANGED <<nvs, typed>>

PowerLoss == Input /\ Restart

------------------------------------------------------------------------------
(* Boot: settings_init.                                                     *)

NextKey ==
  IF bootKey < Len(BootOrder)
  THEN bootKey' = bootKey + 1 /\ UNCHANGED phase
  ELSE bootKey' = 1 /\ phase' = "logging"

(* Mutated: a key that is missing stays so. *)
BootSettingReadsOnly ==
  /\ phase = "settings"
  /\ NextKey
  /\ UNCHANGED <<nvs, web, rebooting, typed, inputs>>

BootSetting ==
  /\ phase = "settings"
  /\ LET key == BootOrder[bootKey]
     IN  nvs' = [nvs EXCEPT ![key] = IF @ = Unset THEN Defaults[key] ELSE @]
  /\ NextKey
  /\ UNCHANGED <<web, rebooting, typed, inputs>>

(* A default cannot be written: settings_init fails, and app_main aborts. *)
BootSettingFails ==
  /\ phase = "settings"
  /\ nvs[BootOrder[bootKey]] = Unset
  /\ Input
  /\ Restart

(* Logging over the network copies the host to the field ipv4 of a record on *)
(* the stack.  A text up to this size stays within the record, whose fields *)
(* behind ipv4 are not used, or are set later.                              *)
HostRoom == 153
LogsToHost == nvs["net_log_type"] \in {1, 2}
HostOverruns == LogsToHost /\ nvs["net_log_host"].size > HostRoom

(* setup_remote_logging; if the type cannot be read, it is taken for 0. *)
BootLogging ==
  /\ phase = "logging"
  /\ \/ nvs["net_log_type"] \in 0 .. 3 /\ UNCHANGED inputs
     \/ Input
  /\ phase' = "mqtt"
  /\ UNCHANGED <<bootKey, nvs, web, rebooting, typed>>

(* For another type it fails, and app_main aborts.  A host that overruns the *)
(* record may end in the same, or in nothing: what lies behind is undefined. *)
BootLoggingFails ==
  /\ phase = "logging"
  /\ nvs["net_log_type"] \notin 0 .. 3 \/ HostOverruns
  /\ Restart
  /\ UNCHANGED inputs

(* Wi-Fi is not there in time: app_main restarts the chip. *)
BootWifiFails == phase = "logging" /\ Input /\ Restart

------------------------------------------------------------------------------
(* The API: set_setting_value_post_handler.                                 *)

Api(request) == [at |-> "api", request |-> request, next |-> 1, failed |-> 0]

(* Requests for another device, and those without data, change nothing. *)
ApiReceive(request) ==
  /\ Serving /\ web = Idle
  /\ Input
  /\ web' = Api(request)
  /\ UNCHANGED <<phase, bootKey, nvs, rebooting, typed>>

Item == web.request.data[web.next]

(* Mutated: what a setting is checked for is left to the type. *)
ValidNoHandler(key, json) ==
  /\ key \in Keys
  /\ json.type = Table[key].type
  /\ json.type = "text" => json.value.size < Table[key].max

(* What apply_setting accepts: a known key, a value that passes its handler *)
(* and, in write_setting_value, has the right type and size.                *)
Valid(key, json) ==
  /\ key \in Keys
  /\ key \in DOMAIN Handler => ValueInt(json) \in Handler[key]
  /\ json.type = Table[key].type
  /\ json.type = "text" => json.value.size < Table[key].max

(* Mutated: a number keeps the value it was sent with. *)
StoreWide(key, value) ==
  /\ nvs' = [nvs EXCEPT ![key] = value]
  /\ typed' = IF web.at = "form" THEN typed \cup {key} ELSE typed \ {key}

(* write_setting_value: nvs_write_uint16 and its like cut off the number. *)
Stored(key, value) == IF Table[key].bits = 16 THEN value % 65536 ELSE value

Store(key, value) ==
  /\ nvs' = [nvs EXCEPT ![key] = Stored(key, value)]
  /\ typed' = IF web.at = "form" THEN typed \cup {key} ELSE typed \ {key}

ApiMore == web.at = "api" /\ web.next <= Len(web.request.data)

ApiApply ==
  /\ ApiMore
  /\ Valid(Item.key, Item.json)
  /\ Store(Item.key, Item.json.value)
  /\ web' = [web EXCEPT !.next = @ + 1]
  /\ UNCHANGED <<phase, bootKey, rebooting, inputs>>

(* Mutated: only the last setting counts. *)
ApiRefuseUncounted ==
  /\ ApiMore
  /\ ~Valid(Item.key, Item.json) /\ UNCHANGED inputs
  /\ web' = [web EXCEPT !.next = @ + 1,
                !.failed = IF web.next = Len(web.request.data) THEN @ + 1 ELSE @]
  /\ UNCHANGED <<phase, bootKey, nvs, rebooting, typed>>

(* A value is refused, or NVS does not take it; the next one has its turn. *)
ApiRefuse ==
  /\ ApiMore
  /\ \/ ~Valid(Item.key, Item.json) /\ UNCHANGED inputs
     \/ Valid(Item.key, Item.json) /\ Input
  /\ web' = [web EXCEPT !.next = @ + 1, !.failed = @ + 1]
  /\ UNCHANGED <<phase, bootKey, nvs, rebooting, typed>>

ApiDone == web.at = "api" /\ web.next > Len(web.request.data)

(* The action of the request: 2 reboots, 1 does if nothing failed. *)
ApiRestarts ==
  \/ web.request.action = 2
  \/ web.request.action = 1 /\ web.failed = 0

(* system_reboot does not look whether there was memory for its task.       *)
SystemReboot ==
  \/ rebooting' = TRUE /\ UNCHANGED inputs
  \/ Input /\ UNCHANGED rebooting

ApiRestart ==
  /\ ApiDone /\ ApiRestarts
  /\ web' = Idle /\ SystemReboot
  /\ UNCHANGED <<phase, bootKey, nvs, typed>>

ApiReply ==
  /\ ApiDone /\ ~ApiRestarts
  /\ web' = Idle
  /\ UNCHANGED <<phase, bootKey, nvs, rebooting, typed, inputs>>

------------------------------------------------------------------------------
(* The configuration form: submit_config_handler.                           *)

(* A body that arrives in pieces overwrites its own beginning in the        *)
(* buffer; the fields that are "lost" so are empty, as a number 0.          *)
FormReceive(fields, lost) ==
  /\ Serving /\ web = Idle
  /\ Input
  /\ web' = [at |-> "form", next |-> 1,
             fields |-> [k \in Keys |->
               IF k \notin lost THEN fields[k]
               ELSE IF Table[k].type = "text" THEN EmptyText ELSE 0]]
  /\ UNCHANGED <<phase, bootKey, nvs, rebooting, typed>>

FormStore ==
  /\ web.at = "form" /\ web.next <= Len(FormOrder)
  /\ Store(FormOrder[web.next], web.fields[FormOrder[web.next]])
  /\ web' = [web EXCEPT !.next = @ + 1]
  /\ UNCHANGED <<phase, bootKey, rebooting, inputs>>

(* Every write is inside an ESP_ERROR_CHECK. *)
FormStoreFails ==
  /\ web.at = "form" /\ web.next <= Len(FormOrder)
  /\ Input
  /\ Restart

FormReply ==
  /\ web.at = "form" /\ web.next > Len(FormOrder)
  /\ web' = Idle
  /\ UNCHANGED <<phase, bootKey, nvs, rebooting, typed, inputs>>

(* reboot_handler *)
RebootPage ==
  /\ Serving /\ web = Idle
  /\ Input
  /\ rebooting' \in {TRUE, rebooting}
  /\ UNCHANGED <<phase, bootKey, nvs, web, typed>>

(* system_reboot_task waits for a second, and in http_stop for the request  *)
(* that is in work: another one may come before the restart.                *)
Reboot ==
  /\ rebooting /\ web = Idle
  /\ Restart
  /\ UNCHANGED inputs

------------------------------------------------------------------------------
Boot == BootSetting \/ BootLogging \/ BootLoggingFails
Serve ==
  \/ ApiApply \/ ApiRefuse \/ ApiRestart \/ ApiReply
  \/ FormStore \/ FormReply
  \/ Reboot
Users ==
  \/ \E request \in Requests : ApiReceive(request)
  \/ \E fields \in Forms, lost \in SUBSET Keys : FormReceive(fields, lost)
  \/ RebootPage
Failures == PowerLoss \/ BootSettingFails \/ BootWifiFails \/ FormStoreFails

SettingsNext == Boot \/ Serve \/ Users \/ Failures
==============================================================================
