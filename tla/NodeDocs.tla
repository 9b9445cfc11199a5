------------------------------ MODULE NodeDocs ------------------------------
(***************************************************************************)
(* A node's configuration as a document (src/nodecfg): what is written and *)
(* read of it where it travels - the node's own page, its report, the      *)
(* collector's Nodes page, the configuration sent back - with the rules    *)
(* every reader checks, and the secrets that travel only when they must.   *)
(* The numbering of revisions is NodeCfgRules'; an exchange between node   *)
(* and collector is one step here, answered or not (see ConfigSync and     *)
(* EspNowConfig for what happens inside one).                              *)
(***************************************************************************)
EXTENDS NodeCfgRules, Sequences, FiniteSets

CONSTANTS
    Nodes,          \* the nodes as first started, their sensors by type
    Legacy,         \* what an older firmware's files hold: [fields, pins, secret]
    PortalChanges,  \* what somebody changes on the node's page: [fields, sensors, secret, clear]
    PageChanges,    \* and on the collector's
    MaxSaves,       \* bounds of the exploration: forms saved
    MaxTroubles     \* answers lost, restarts and nodes forgotten

VARIABLES
    node,    \* the running configuration, which is also the stored one, and s_sync
    shelf,   \* the collector's file for the node and its entry
    table,   \* the ESP-NOW table's name and interval
    base,    \* what each open page got: a document or Unread
    may,     \* the values each secret of the node may have
    spent    \* forms saved and troubles so far

docVars == <<node, shelf, table, base, may, spent>>

Unread == [rev |-> 0]
NoFile == [held |-> FALSE]
NoPrev == [type |-> "none"]

-----------------------------------------------------------------------------
(* Sensors and their fields.                                               *)

sensorIsI2c(type)      == type \in {"bmx280", "bme688", "bh1750"}
sensorNeedsAwake(type) == type \in {"sds011", "pulse"}

\* pulseModeDefaults()
ModeScale(mode) == IF mode = "flow" THEN 2 ELSE 3

\* sensorDefaults(): pin is the rx of an sds011.
SensorDefaults(type, hw) ==
    [type |-> type, interval_s |-> 0,
     addr |-> IF type = "bh1750" THEN 35 ELSE 0,
     pin |-> CASE type = "ds18b20" -> IF hw = "esp32c3" THEN 3 ELSE 12
               [] type = "sds011" -> IF hw = "esp32c3" THEN 5 ELSE 14
               [] type = "pulse" -> 4
               [] OTHER -> 0,
     tx |-> IF type # "sds011" THEN 0 ELSE IF hw = "esp32c3" THEN 10 ELSE 13,
     count |-> 1, metric |-> <<"probe_temp">>,
     mode |-> "rain", scale |-> ModeScale("rain"), warmup_s |-> 30]

SensorKeys(type) ==
    {"type", "interval_s"} \cup
    (CASE sensorIsI2c(type) -> {"addr"}
       [] type = "ds18b20" -> {"pin", "count", "metric"}
       [] type = "sds011" -> {"pin", "tx", "warmup_s"}
       [] type = "pulse" -> {"pin", "mode", "scale"})

EncodeSensor(s) == [k \in SensorKeys(s.type) |-> s[k]]

\* Fault: the new mode's defaults are set over what the document says.
DecodeSensorResetLast(d, prev, hw) ==
    LET from == IF prev.type = d.type THEN prev ELSE SensorDefaults(d.type, hw)
        new  == [k \in DOMAIN from |-> IF k \in DOMAIN d THEN d[k] ELSE from[k]]
    IN  IF new.mode # from.mode THEN [new EXCEPT !.scale = ModeScale(new.mode)] ELSE new

\* decodeSensor(): what the entry leaves out is the previous entry's of the
\* same place, if that has the same type.
DecodeSensor(d, prev, hw) ==
    LET from  == IF prev.type = d.type THEN prev ELSE SensorDefaults(d.type, hw)
        moded == IF "mode" \in DOMAIN d /\ d.mode # from.mode
                 THEN [from EXCEPT !.mode = d.mode, !.scale = ModeScale(d.mode)] ELSE from
    IN  [k \in DOMAIN from |-> IF k \in DOMAIN d /\ k \in SensorKeys(d.type) THEN d[k] ELSE moded[k]]

-----------------------------------------------------------------------------
(* Whole documents.                                                        *)

\* The plain settings a transport has, and the secrets: basic_pass goes as
\* token does, net.next is the handover's.
FieldsOf(espnow) ==
    {"name", "interval_s", "altitude_m", "board", "sda", "scl"} \cup
    (IF espnow THEN {"sleep", "batt", "window"} ELSE {"ssid", "host"})
SecretsOf(espnow) == IF espnow THEN {"lmk"} ELSE {"pass", "token"}

\* encodeConfig() with the values of some of the secrets: the others are only
\* said to be set or not.  The key of the radio is in no document but the
\* node's own page's.
Encode(c, shown, secrets) ==
    [rev |-> c.rev, local |-> c.local,
     fields |-> [f \in FieldsOf(c.espnow) |-> c.fields[f]],
     sensors |-> [i \in 1..Len(c.sensors) |-> EncodeSensor(c.sensors[i])],
     whole |-> TRUE,
     secret |-> [s \in secrets |-> IF shown THEN c.secret[s] ELSE ""],
     set |-> [s \in secrets |-> c.secret[s] # ""]]

Travelling(c) == IF c.espnow THEN {} ELSE SecretsOf(c.espnow)

\* Fault: an empty secret is a cleared one.
DecodeSecretPlainly(d, s, old) == IF s \in DOMAIN d.secret THEN d.secret[s] ELSE old

\* readSecret(): "" keeps, unless it is said that none is set.
DecodeSecret(d, s, old) ==
    IF s \notin DOMAIN d.secret THEN old
    ELSE IF d.secret[s] # "" THEN d.secret[s]
    ELSE IF s \in DOMAIN d.set /\ ~d.set[s] THEN "" ELSE old

Prev(c, i) == IF i \in DOMAIN c.sensors THEN c.sensors[i] ELSE NoPrev

\* decodeConfig(): a copy, with what the document has in place of its own.
Decode(d, c) ==
    [c EXCEPT !.fields = [f \in DOMAIN @ |-> IF f \in DOMAIN d.fields THEN d.fields[f] ELSE @[f]],
              !.sensors = IF d.whole THEN [i \in 1..Len(d.sensors) |-> DecodeSensor(d.sensors[i], Prev(c, i), c.hw)]
                          ELSE @,
              !.secret = [s \in DOMAIN @ |-> DecodeSecret(d, s, @[s])]]

MaxSensors == 8

\* What decoding itself refuses: a number past its width, too many sensors.
Readable(d) ==
    /\ \A f \in DOMAIN d.fields : d.fields[f] \in 0..65535
    /\ Len(d.sensors) <= MaxSensors

-----------------------------------------------------------------------------
(* validate()                                                              *)

Fits(c) ==
    /\ c.fields["name"] # 0
    /\ c.fields["interval_s"] >= 10
    /\ c.fields["altitude_m"] <= 9000
    /\ c.fields["board"] \in 0..2
    /\ IF c.espnow THEN c.fields["window"] \in 5..1000
       ELSE c.fields["ssid"] # 0 /\ c.fields["host"] # 0
    /\ \A s \in DOMAIN c.secret : c.secret[s] # "short"

SensorFits(s) ==
    /\ s.type \in {"bmx280", "bme688"} => s.addr \in {0, 118, 119}
    /\ s.type = "bh1750" => s.addr \in {35, 92}
    /\ s.type = "ds18b20" => s.count \in 1..8 /\ s.metric # <<>>
    /\ s.type = "pulse" => s.scale > 0
    /\ s.type = "sds011" => s.warmup_s \in 10..120

SensorsFit(c) ==
    LET all == c.sensors IN
    /\ \A i \in DOMAIN all : SensorFits(all[i]) /\ ~(c.espnow /\ c.fields["sleep"] = 1 /\ sensorNeedsAwake(all[i].type))
    /\ \A i, j \in DOMAIN all : i < j =>
          /\ all[i].type = all[j].type => all[i].type = "ds18b20"
          /\ {all[i].type, all[j].type} # {"bmx280", "bme688"}

sensorTypeMetricIds(s) ==
    CASE s.type = "bmx280" -> <<"temperature", "humidity", "pressure", "pressure_sea">>
      [] s.type = "bme688" -> <<"temperature", "humidity", "pressure", "pressure_sea", "gas_resistance">>
      [] s.type = "bh1750" -> <<"lux">>
      [] s.type = "sds011" -> <<"pm25", "pm10">>
      [] s.type = "pulse" -> IF s.mode = "flow" THEN <<"flow_rate", "flow_total">> ELSE <<"rain_rate", "rain_total">>

\* A name is its words: probe p of a bus has the bus's name and "_p".
probeMetricName(metric, p) ==
    IF p = 0 THEN metric ELSE Append(metric, <<"1", "2", "3", "4", "5", "6", "7">>[p])

metricsOf(s) ==
    IF s.type = "ds18b20" THEN [p \in 1..s.count |-> probeMetricName(s.metric, p - 1)]
    ELSE [j \in 1..Len(sensorTypeMetricIds(s)) |-> <<sensorTypeMetricIds(s)[j]>>]

MaxMetrics == 12

\* listMetrics(): every metric by its sensor and its place there.
listMetrics(c) == UNION {{i} \X (1..Len(metricsOf(c.sensors[i]))) : i \in DOMAIN c.sensors}
MetricsFit(c) ==
    /\ Cardinality(listMetrics(c)) <= MaxMetrics
    /\ \A m, n \in listMetrics(c) : metricsOf(c.sensors[m[1]])[m[2]] = metricsOf(c.sensors[n[1]])[n[2]] => m = n

pinExists(hw, gpio) == gpio \in 0..(IF hw = "esp32c3" THEN 21 ELSE 16)
pinForbidden(hw, gpio) == gpio \in (IF hw = "esp32c3" THEN 12..17 ELSE 6..11)
pinHasInterrupt(hw, gpio) == ~(hw = "esp8266" /\ gpio = 16)
pinIsAdc(hw, gpio) == hw = "esp32c3" /\ gpio \in 0..4

\* The uses of pins, each with what the pin must be able to do.
Use(key, gpio, role) == [key |-> key, gpio |-> gpio, role |-> role]
SensorUses(c, i) ==
    LET s == c.sensors[i] IN
    CASE s.type = "ds18b20" -> {Use(<<i, "pin">>, s.pin, "any")}
      [] s.type = "pulse" -> {Use(<<i, "pin">>, s.pin, "irq")}
      [] s.type = "sds011" -> {Use(<<i, "pin">>, s.pin, IF c.hw = "esp8266" THEN "irq" ELSE "any"), Use(<<i, "tx">>, s.tx, "any")}
      [] OTHER -> {Use(<<0, "sda">>, c.fields["sda"], "any"), Use(<<0, "scl">>, c.fields["scl"], "any")}
PinUses(c) ==
    UNION {SensorUses(c, i) : i \in DOMAIN c.sensors}
    \cup (IF c.espnow THEN {Use(<<0, "batt">>, c.fields["batt"], "adc")} ELSE {})

PinsFit(c) ==
    \A u \in PinUses(c) :
        /\ pinExists(c.hw, u.gpio) /\ ~pinForbidden(c.hw, u.gpio)
        /\ u.role = "irq" => pinHasInterrupt(c.hw, u.gpio)
        /\ u.role = "adc" => pinIsAdc(c.hw, u.gpio)
        /\ \A v \in PinUses(c) : v.key # u.key => v.gpio # u.gpio

Validates(c) == Fits(c) /\ SensorsFit(c) /\ MetricsFit(c) /\ PinsFit(c)

\* migrateLegacyWifi(): the firmware's sensors with the old file's pins and
\* settings, nothing of it checked.
MigrateLegacy(old, c) ==
    [c EXCEPT !.fields = [f \in DOMAIN @ |-> IF f \in DOMAIN old.fields THEN old.fields[f] ELSE @[f]],
              !.sensors = [i \in DOMAIN @ |-> LET s == @[i] IN
                  IF s.type \in DOMAIN old.pins THEN [s EXCEPT !.pin = old.pins[s.type]] ELSE s],
              !.secret = [s \in DOMAIN @ |-> IF s \in DOMAIN old.secret THEN old.secret[s] ELSE @[s]],
              !.rev = 0, !.local = FALSE]

-----------------------------------------------------------------------------
(* The two pages.                                                          *)

\* seedDefaults(): the sensors the build selected, each with its defaults.
seedDefaults(n) == [n EXCEPT !.sensors = [i \in DOMAIN @ |-> SensorDefaults(@[i], n.hw)]]

\* storeLoad(): the files of a WiFi node may be an older firmware's.
FirstConfigs(n) ==
    {seedDefaults(n)} \cup IF n.espnow THEN {} ELSE {MigrateLegacy(old, seedDefaults(n)) : old \in Legacy}

Init1(c) == [cfg |-> c, reported |-> FALSE, err |-> 0, rejected |-> 0]

DocsInit ==
    /\ \E n \in Nodes : \E c \in FirstConfigs(n) : node = Init1(c)
    /\ shelf = NoFile
    /\ table = [name |-> 9, interval_s |-> 60]
    /\ base = [at \in {"portal", "page"} |-> Unread]
    /\ may = [s \in DOMAIN node.cfg.secret |-> {node.cfg.secret[s]}]
    /\ spent = [saves |-> 0, troubles |-> 0]

OpenPortal ==
    /\ base["portal"] = Unread
    /\ base' = [base EXCEPT !["portal"] = Encode(node.cfg, FALSE, SecretsOf(node.cfg.espnow))]
    /\ UNCHANGED <<node, shelf, table, may, spent>>

\* secretsForGet(): which secrets are set is what the collector knows.
OpenPage ==
    /\ shelf.held /\ base["page"] = Unread
    /\ base' = [base EXCEPT !["page"] =
           [Encode(shelf.desired, FALSE, Travelling(shelf.desired)) EXCEPT !.set = [s \in DOMAIN @ |-> s \in shelf.known]]]
    /\ UNCHANGED <<node, shelf, table, may, spent>>

\* The sensors somebody leaves in the list: an entry as it came, with
\* changes, or a new one.
Arranged(old, change) ==
    [i \in DOMAIN change |-> IF change[i].from = 0 THEN change[i].put
                             ELSE [k \in DOMAIN old[change[i].from] |->
                                     IF k \in DOMAIN change[i].put THEN change[i].put[k] ELSE old[change[i].from][k]]]
CanArrange(old, change) == \A i \in DOMAIN change : change[i].from \in 0..Len(old)

Over(new, old) == [k \in DOMAIN old |-> IF k \in DOMAIN new THEN new[k] ELSE old[k]]

\* payload(): everything, and a passphrase that belonged to another network
\* is given up unless a new one was typed.
Payload(b, ch) ==
    [b EXCEPT !.fields = Over(ch.fields, @),
              !.sensors = IF ch.moves THEN Arranged(@, ch.sensors) ELSE @,
              !.secret = Over(ch.secret, @),
              !.set = [s \in DOMAIN @ |-> s \notin ch.clear /\ (s = "pass" => Over(ch.fields, b.fields)["ssid"] = b.fields["ssid"])]]

\* Fault: the collector's page sends the whole document it shows.
Whole(b, ch) == Payload(b, [ch EXCEPT !.clear = {}])

\* ndPartial(): what differs from the document the page got.
Partial(b, ch) ==
    [rev |-> 0, local |-> FALSE,
     fields |-> [f \in {g \in DOMAIN ch.fields \cap DOMAIN b.fields : ch.fields[g] # b.fields[g]} |-> ch.fields[f]],
     sensors |-> IF ch.moves THEN Arranged(b.sensors, ch.sensors) ELSE b.sensors,
     whole |-> ch.moves /\ Arranged(b.sensors, ch.sensors) # b.sensors,
     secret |-> [s \in DOMAIN ch.secret \cap DOMAIN b.secret |-> ch.secret[s]],
     set |-> [s \in {} |-> TRUE]]

Saves == spent.saves < MaxSaves /\ spent' = [spent EXCEPT !.saves = @ + 1]
Trouble == spent.troubles < MaxTroubles /\ spent' = [spent EXCEPT !.troubles = @ + 1]

\* handleConfigPost() of the node's page: all of it or, refused, nothing; a
\* form that is saved restarts the node.
PostPortal(ch) ==
    LET d   == Payload(base["portal"], ch)
        new == [Decode(d, node.cfg) EXCEPT !.local = TRUE]
    IN  /\ base["portal"] # Unread /\ CanArrange(base["portal"].sensors, ch.sensors) /\ Saves
        /\ IF Readable(d) /\ Validates(new)
           THEN /\ node' = [node EXCEPT !.cfg = new, !.reported = FALSE, !.rejected = node.err]
                /\ may' = [s \in DOMAIN may |-> {new.secret[s]}]
                /\ base' = [base EXCEPT !["portal"] = Unread]
           ELSE UNCHANGED <<node, may, base>>
        /\ UNCHANGED <<shelf, table>>

\* A configuration the collector wants the node to have next.
Bump(f) == LET rev == revAfter(f.rev, f.told) IN
    [f EXCEPT !.rev = rev, !.desired.rev = rev, !.desired.local = FALSE,
              !.status = statusAfterApplied("pending", rev, f.applied)]

Differ(a, b) == {s \in DOMAIN a.secret : a.secret[s] # b.secret[s]}
Set(c) == {s \in DOMAIN c.secret : c.secret[s] # ""}

Follows(t, c) == IF c.espnow THEN [name |-> c.fields["name"], interval_s |-> c.fields["interval_s"]] ELSE t

\* nodeCfgApiPost()
PostPage(ch) ==
    LET d       == Partial(base["page"], ch)
        new     == Decode(d, shelf.desired)
        changed == Differ(shelf.desired, new)
    IN  /\ base["page"] # Unread /\ shelf.held /\ CanArrange(base["page"].sensors, ch.sensors) /\ Saves
        /\ IF Readable(d) /\ Validates(new)
           THEN /\ shelf' = Bump([shelf EXCEPT !.desired = new, !.dirty = @ \cup changed,
                                               !.known = (@ \ changed) \cup (Set(new) \cap changed)])
                /\ table' = Follows(table, new)
                /\ may' = [s \in DOMAIN may |-> IF s \in changed THEN may[s] \cup {new.secret[s]} ELSE may[s]]
                /\ base' = [base EXCEPT !["page"] = Unread]
           ELSE UNCHANGED <<shelf, table, may, base>>
        /\ UNCHANGED node

-----------------------------------------------------------------------------
(* The exchange.                                                           *)

Reports == node.cfg.local \/ ~node.reported
Noted(told, rev) == IF rev # 0 /\ ~revAtOrPast(told, rev) THEN rev ELSE told

\* configDefaults(), over which the report of a node never seen is read.
Blank(c) == [c EXCEPT !.sensors = <<>>, !.secret = [s \in DOMAIN @ |-> ""], !.rev = 0, !.local = FALSE]

\* Fault: secrets the collector still holds go out as though they were new.
ForNodeUnmasked(f) == Encode(f.desired, TRUE, Travelling(f.desired))

\* secretsForNode(): only the secrets changed here and not yet taken carry a
\* value; of the others the node is told to keep its own.
ForNode(f) ==
    LET d == Encode(f.desired, TRUE, Travelling(f.desired)) IN
    [d EXCEPT !.secret = [s \in DOMAIN @ |-> IF s \in f.dirty THEN @[s] ELSE ""],
              !.set = [s \in DOMAIN @ |-> s \in f.dirty => @[s]]]

\* adoptTableIdentity(): a radio node is called what the table calls it.
Identity(f) ==
    LET named == [f.desired EXCEPT !.fields["name"] = table.name, !.fields["interval_s"] = table.interval_s] IN
    IF ~f.desired.espnow \/ named = f.desired THEN f ELSE Bump([f EXCEPT !.desired = named])

\* The file once the node's post or report is taken in, and whether that was adopted.
Adopted(rep, plan) ==
    LET had     == shelf.held
        desired == [Decode(rep, IF had THEN shelf.desired ELSE Blank(node.cfg)) EXCEPT !.rev = plan.rev, !.local = FALSE]
        applied == IF node.cfg.espnow /\ ~node.cfg.local THEN node.cfg.rev ELSE plan.applied
        f       == [held |-> TRUE, desired |-> desired, rev |-> plan.rev, applied |-> applied,
                    told |-> Noted(IF had THEN shelf.told ELSE 0, plan.applied),
                    status |-> statusAfterApplied("pending", plan.rev, applied),
                    known |-> {s \in DOMAIN rep.set : rep.set[s]}, dirty |-> {}]
    IN  IF had THEN f ELSE Identity(f)

Runs(f, rev) ==
    [f EXCEPT !.applied = rev, !.told = Noted(@, rev), !.status = statusAfterApplied(@, f.rev, rev),
              !.dirty = IF revAtOrPast(rev, f.rev) THEN {} ELSE @]
Refused(f) == IF node.err # 0 /\ node.err = f.rev THEN [f EXCEPT !.status = "rejected"] ELSE f

Plan == planReport(shelf.held, IF shelf.held THEN shelf.rev ELSE 0, node.cfg.rev, node.cfg.local)
Taken ==
    IF Reports /\ Plan.adopt
    THEN Adopted(Encode(node.cfg, FALSE, Travelling(node.cfg)), Plan)
    ELSE IF shelf.held THEN Runs(Refused(shelf), node.cfg.rev) ELSE shelf

\* What the node reads in the answer: its report's new revision, or a whole
\* document it may run or refuse.
Confirmed(n, rev) == [n EXCEPT !.cfg.rev = rev, !.cfg.local = FALSE]
Wanted(f) == ~(node.err # 0 /\ node.err = f.rev) /\ shouldSend(f.status, f.rev, node.cfg.rev)

\* classifyChange(): what a WiFi node restarts for; a radio node takes
\* everything as it runs.
SameSensor(a, b) == \A k \in DOMAIN a \ {"interval_s", "warmup_s"} : a[k] = b[k]
Restarts(a, b) ==
    /\ ~a.espnow
    /\ \/ a.secret # b.secret
       \/ \E f \in {"ssid", "host", "sda", "scl"} : a.fields[f] # b.fields[f]
       \/ Len(a.sensors) # Len(b.sensors)
       \/ \E i \in DOMAIN a.sensors : ~SameSensor(a.sensors[i], b.sensors[i])

\* applyCollectorConfig(), acceptFromCollector(): the key is never the
\* document's to change.
Given(n, f) ==
    LET d   == ForNode(f)
        new == [Decode(d, n.cfg) EXCEPT !.rev = f.rev, !.local = FALSE]
    IN  IF f.rev \in {n.rejected, n.cfg.rev} THEN n
        ELSE IF Readable(d) /\ Validates(new)
             THEN [n EXCEPT !.cfg = new, !.reported = ~Restarts(n.cfg, new)]
             ELSE [n EXCEPT !.err = f.rev, !.rejected = f.rev]

\* The node posts or reports, and hears the answer or does not.
Exchange(answered) ==
    LET adopted == Reports /\ Plan.adopt
        heard   == [node EXCEPT !.err = 0, !.reported = shelf'.held]
    IN  /\ shelf' = Taken
        /\ table' = IF shelf'.held /\ adopted THEN Follows(table, shelf'.desired) ELSE table
        /\ IF ~answered THEN node' = node /\ Trouble
           ELSE /\ node' = IF adopted THEN Confirmed(heard, Plan.rev)
                           ELSE IF shelf'.held /\ Wanted(shelf') THEN Given(heard, shelf') ELSE heard
                /\ spent' = spent
        \* What the node took is the one value left to that secret.
        /\ may' = IF node'.cfg = node.cfg THEN may
                  ELSE [s \in DOMAIN may |-> IF node'.cfg.secret[s] \in may[s] THEN {node'.cfg.secret[s]} ELSE may[s]]
        /\ UNCHANGED base

\* The node starts again: a refusal not yet reported is all it remembers.
Restart ==
    /\ Trouble
    /\ node' = [node EXCEPT !.reported = FALSE, !.rejected = node.err]
    /\ base' = [base EXCEPT !["portal"] = Unread]
    /\ UNCHANGED <<shelf, table, may>>

\* nodeCfgDelete(): the collector forgets what it knows of the node.
Forget ==
    /\ shelf.held /\ Trouble
    /\ shelf' = NoFile
    /\ UNCHANGED <<node, table, base, may>>

DocsNext ==
    \/ OpenPortal \/ OpenPage \/ Restart \/ Forget
    \/ \E ch \in PortalChanges : PostPortal(ch)
    \/ \E ch \in PageChanges : PostPage(ch)
    \/ \E answered \in BOOLEAN : Exchange(answered)

-----------------------------------------------------------------------------
(* Properties.                                                             *)

\* A secret of a node is always one somebody typed, on the node or on the
\* collector, and not undone since: reports say only which are set and the
\* collector's copies may be old, yet no configuration sent ever clears one
\* or puts an old one back.
SecretsKept == \A s \in DOMAIN may : node.cfg.secret[s] \in may[s]

\* A node shown as having applied the configuration runs what the page
\* shows: the whole of it, through every encoding on the way.
RunsWhatWasSaid ==
    shelf.held /\ shelf.status = "applied" /\ ~node.cfg.local /\ node.cfg.rev = shelf.rev
        => /\ node.cfg.fields = shelf.desired.fields
           /\ [i \in DOMAIN node.cfg.sensors |-> EncodeSensor(node.cfg.sensors[i])]
                = [i \in DOMAIN shelf.desired.sensors |-> EncodeSensor(shelf.desired.sensors[i])]

\* A form saved from a page that was opened before the configuration changed
\* changes only what was typed in it.
OthersKept ==
    [][\A ch \in PageChanges : PostPage(ch) /\ shelf' # shelf =>
        /\ \A f \in DOMAIN shelf.desired.fields \ DOMAIN ch.fields : shelf'.desired.fields[f] = shelf.desired.fields[f]
        /\ ~ch.moves => shelf'.desired.sensors = shelf.desired.sensors]_docVars
=============================================================================
