---------------------------- MODULE ConfigStore ----------------------------
(***************************************************************************)
(* config.json (config.go, LoadOrCreateConfig; web.go, /api/config and     *)
(* /api/config/restore): how it is read at the start, with the fallbacks   *)
(* of its ports, and how the dashboard overwrites it in place after a      *)
(* backup whose name has the resolution of a second.  The handlers take    *)
(* no lock, a body is saved as it comes, and a backup that fails is not    *)
(* noticed.                                                                *)
(*                                                                         *)
(* A content is known by the number of the save that brought it, and has   *)
(* ports.  Left out: every other setting, GET, and the list of backups,    *)
(* from which the dashboard takes the names that exist.                    *)
(***************************************************************************)
EXTENDS Integers, FiniteSets

CONSTANTS Writers,      \* requests to the dashboard that may be in flight together
          PortSettings, \* the ports a file may give: functions from PortNames, 0 for none
          MaxSaves,     \* bound: saves and restores
          MaxSeconds,   \* bound: seconds that pass
          MaxBoots      \* bound: starts

PortNames == {"web", "proxy", "vllm", "mooncake", "hub", "p2p"}

ASSUME ConfigAssumptions ==
    /\ PortSettings \subseteq [PortNames -> Int]
    /\ MaxSaves \in Nat /\ MaxSeconds \in Nat /\ MaxBoots \in Nat

VARIABLES
    disk,     \* config.json
    backups,  \* the files of backups/
    second,   \* time.Now().Format("20060102_150405")
    booted,   \* "down", "up" or "refused"; the ports an "up" node was given and uses
    writer,   \* requests: where they are, what they read, what they will write
    record    \* history, see ConfigInit

configVars == <<disk, backups, second, booted, writer, record>>

Fallback == [web |-> 50007, proxy |-> 50006, vllm |-> 8100, mooncake |-> 8998,
             hub |-> 50008, p2p |-> 50004]

NoPorts == [n \in PortNames |-> 0]

DefaultFile == [text |-> "whole", save |-> 0, ports |-> Fallback]

TornFile == [DefaultFile EXCEPT !.text = "torn", !.ports = NoPorts]

Off(at) == [at |-> at, given |-> NoPorts, ports |-> NoPorts]

Unread == [at |-> "idle", restores |-> FALSE, saw |-> DefaultFile, new |-> DefaultFile]

(* record.saves, boots  counts                                             *)
(* record.acked     contents that config.json was said to have             *)
(* record.backedUp  contents that a save answered to have backed up        *)
(* record.exposed   contents that no backup protects: the backup before    *)
(*                  their end failed, or another one took its name, or a   *)
(*                  write came between a request's backup and its own      *)
ConfigInit ==
    /\ \E ports \in PortSettings :
          disk \in {[DefaultFile EXCEPT !.ports = ports], [DefaultFile EXCEPT !.text = "absent"]}
    /\ backups = {} /\ second = 0
    /\ booted = Off("down")
    /\ writer = [w \in Writers |-> Unread]
    /\ record = [saves |-> 0, boots |-> 0, acked |-> {0}, backedUp |-> {}, exposed |-> {}]

Ports == PortSettings \cup {NoPorts, Fallback}

Files == [text : {"whole", "torn", "bad", "absent"}, save : 0..MaxSaves, ports : Ports]

ConfigTypeOK ==
    /\ disk \in Files /\ second \in 0..MaxSeconds
    /\ \A b \in backups : b.restores \in BOOLEAN /\ b.second \in 0..second /\ b.file \in Files
    /\ booted.at \in {"down", "up", "refused"}
    /\ booted.given \in Ports /\ booted.ports \in [PortNames -> Int]
    /\ writer \in [Writers -> [at : {"idle", "backup", "write", "truncated"},
                               restores : BOOLEAN, saw : Files, new : Files]]
    /\ record.acked \cup record.backedUp \cup record.exposed \subseteq 0..MaxSaves

-----------------------------------------------------------------------------
(* The start *)

(* LoadOrCreateConfig: each port that is missing or in the way of the      *)
(* gateway's gets its fallback.                                            *)
ClientPorts(c) ==
    LET Given(n) == IF c[n] <= 0 THEN Fallback[n] ELSE c[n]
        Aside(n) == IF c[n] <= 0 \/ c[n] = Given("proxy") THEN Fallback[n] ELSE c[n]
    IN  [c EXCEPT !.web = Given("web"), !.proxy = Given("proxy"),
                  !.vllm = Aside("vllm"), !.mooncake = Aside("mooncake")]

Claim(c, n, used) == IF c[n] <= 0 \/ c[n] \in used THEN Fallback[n] ELSE c[n]

Client == {"web", "proxy", "vllm", "mooncake"}

(* applyServerModeDefaults, on what the client claimed. *)
ServerPorts(c) ==
    LET used == {c[n] : n \in Client}
        hub == Claim(c, "hub", used)
    IN  [c EXCEPT !.hub = hub, !.p2p = Claim(c, "p2p", used \cup {hub})]

Boot ==
    /\ booted.at # "up" /\ record.boots < MaxBoots
    /\ record' = [record EXCEPT !.boots = @ + 1]
    /\ disk' = IF disk.text = "absent" THEN DefaultFile ELSE disk
    /\ booted' = IF disk'.text = "whole"
                 THEN [at |-> "up", given |-> disk'.ports, ports |-> ServerPorts(ClientPorts(disk'.ports))]
                 ELSE Off("refused")
    /\ UNCHANGED <<backups, second, writer>>

(* The program ends, at any point of any request. *)
Down ==
    /\ booted.at = "up"
    /\ booted' = Off("down") /\ writer' = [w \in Writers |-> Unread]
    /\ UNCHANGED <<disk, backups, second, record>>

-----------------------------------------------------------------------------
(* The dashboard *)

Request(w, restores, new) ==
    /\ booted.at = "up" /\ writer[w].at = "idle"
    /\ writer' = [writer EXCEPT ![w] = [Unread EXCEPT !.at = "backup", !.restores = restores, !.new = new]]
    /\ UNCHANGED <<disk, backups, second, booted>>

OneMore == record.saves < MaxSaves /\ record' = [record EXCEPT !.saves = @ + 1]

(* POST /api/config.  Nobody parses the body. *)
Post(w) ==
    /\ OneMore
    /\ \E text \in {"whole", "bad"} :
          Request(w, FALSE, [DefaultFile EXCEPT !.text = text, !.save = record.saves + 1])

(* POST /api/config/restore: the backup is read first. *)
Restore(w) == OneMore /\ \E b \in backups : Request(w, TRUE, b.file)

(* The contents a file preserves. *)
Saved(file) == IF file.text = "torn" THEN {} ELSE {file.save}

BackedUp == UNION {Saved(b.file) : b \in backups}

(* Seeded fault: a restore makes no backup of its own. *)
BackupOfSavesOnly(w, file) ==
    IF writer[w].restores THEN backups
    ELSE backups \cup {[restores |-> FALSE, second |-> second, file |-> file]}

SameName(w) == {b \in backups : b.restores = writer[w].restores /\ b.second = second}

(* The name tells saves, restores and seconds apart. *)
Backup(w, file) ==
    (backups \ SameName(w)) \cup {[restores |-> writer[w].restores, second |-> second, file |-> file]}

(* Contents are in danger that no backup has. *)
Expose(contents) == record' = [record EXCEPT !.exposed = @ \cup (contents \ BackedUp')]

MakeBackup(w) ==
    /\ writer[w].at = "backup" /\ backups' = Backup(w, disk)
    /\ writer' = [writer EXCEPT ![w].at = "write", ![w].saw = disk]
    /\ Expose(UNION {Saved(b.file) : b \in SameName(w)})
    /\ UNCHANGED <<disk, second, booted>>

(* config.json cannot be read, or the backup not, or not wholly, written:  *)
(* the handler goes on.                                                    *)
BackupFails(w) ==
    /\ writer[w].at = "backup" /\ backups' \in {backups, Backup(w, TornFile)}
    /\ writer' = [writer EXCEPT ![w].at = "write", ![w].saw = disk]
    /\ Expose(Saved(disk) \cup UNION {Saved(b.file) : b \in SameName(w)})
    /\ UNCHANGED <<disk, second, booted>>

(* The rest of the body never comes, or config.json cannot be opened: an   *)
(* error, after the backup.                                                *)
GiveUp(w) ==
    /\ writer[w].at = "write" /\ writer' = [writer EXCEPT ![w] = Unread]
    /\ UNCHANGED <<disk, backups, second, booted, record>>

(* os.WriteFile truncates, then writes. *)
Truncate(w) ==
    /\ writer[w].at = "write" /\ writer' = [writer EXCEPT ![w].at = "truncated"]
    /\ disk' = TornFile
    /\ UNCHANGED <<backups, second, booted>>
    /\ Expose(Saved(disk) \ Saved(writer[w].saw))

WriteFails(w) ==
    /\ writer[w].at = "truncated" /\ writer' = [writer EXCEPT ![w] = Unread]
    /\ disk' = TornFile
    /\ UNCHANGED <<backups, second, booted>>
    /\ Expose(Saved(disk))

(* What another one wrote since the truncation is written over, and may    *)
(* stick out behind.                                                       *)
WriteAndAnswer(w) ==
    LET file == writer[w].new
        crossed == disk.text # "torn"
    IN  /\ writer[w].at = "truncated" /\ writer' = [writer EXCEPT ![w] = Unread]
        /\ disk' \in {file} \cup (IF crossed THEN {TornFile} ELSE {})
        /\ record' = [record EXCEPT
              !.acked = @ \cup Saved(file),
              !.backedUp = @ \cup (IF writer[w].restores THEN {} ELSE Saved(writer[w].saw)),
              !.exposed = @ \cup (IF crossed THEN Saved(disk) \cup Saved(file) ELSE {})]
        /\ UNCHANGED <<backups, second, booted>>

SecondPasses ==
    /\ second < MaxSeconds /\ second' = second + 1
    /\ UNCHANGED <<disk, backups, booted, writer, record>>

ConfigNext ==
    \/ Boot \/ Down \/ SecondPasses
    \/ \E w \in Writers : \/ Post(w) \/ Restore(w) \/ MakeBackup(w) \/ BackupFails(w) \/ GiveUp(w)
                          \/ Truncate(w) \/ WriteFails(w) \/ WriteAndAnswer(w)

ConfigSpec == ConfigInit /\ [][ConfigNext]_configVars

-----------------------------------------------------------------------------
(* Properties *)

(* A content that an operator was told is in config.json is there or in a  *)
(* backup, through restores, failed writes, a torn file and crashes in the *)
(* middle of a write, whatever happens to others beside it: what can lose  *)
(* a content is a backup of it that failed (web.go:308), or whose name     *)
(* another took within the second (web.go:311), or a write that crossed    *)
(* one of its own (web.go:322), and nothing else.                          *)
NothingLost == record.acked \ record.exposed \subseteq Saved(disk) \cup BackedUp

-----------------------------------------------------------------------------
(* Claims of the code and the documents that the code's behaviour does not *)
(* bear out. *)

(* web.go:327, "Config saved and backed up successfully"; web.go:305 and   *)
(* docs/DASHBOARD_UI.md:130, "creates timestamped backups in backups/".    *)
SavedAndBackedUp == record.backedUp \subseteq Saved(disk) \cup BackedUp

(* config.go:307, of the hub's ports: "steering clear of ports already     *)
(* claimed by the client's own web/proxy/vLLM/Mooncake endpoints".         *)
HubPortsSteerClear ==
    booted.at = "up" =>
        \A n \in Client : booted.ports[n] \notin {booted.ports["hub"], booted.ports["p2p"]}
=============================================================================
