--------------------------- MODULE AgentVersions ---------------------------
(***************************************************************************)
(* The configuration of one agent and its history of versions: the         *)
(* endpoints that edit, restore and re-hash it (routers.py, and            *)
(* settings_routes.py for the settings page).  A request reads the agent's *)
(* row, changes it in memory and commits: the columns whose values differ  *)
(* from what was read are written, whatever the row says by then.          *)
(*                                                                         *)
(* Three groups of restorable fields differ in how they are treated:       *)
(*   main    name, description, prompt, model, tools: hashed, and a patch  *)
(*           of one of them makes a version                                *)
(*   tuning  temperature, max_tokens, allowed and blocked actions: hashed, *)
(*           and a patch of them makes none                                *)
(*   extra   safety_config and tool_config: neither                        *)
(***************************************************************************)
EXTENDS Integers, Sequences

CONSTANTS
    Values,         \* of each group of fields
    Requests,       \* edits under way at a time
    MaxEdits        \* bound on the edits altogether

ASSUME EditsAssumption == MaxEdits \in Nat /\ Values # {}

Groups == {"main", "tuning", "extra"}
Configs == [Groups -> Values]
Manifest(c) == <<c["main"], c["tuning"]>>   \* compute_manifest_hash

VARIABLES
    config,     \* the restorable columns of AgentDefinition
    version,    \* version
    hash,       \* agent_version_hash
    history,    \* the AgentVersion rows, in the order of their insertion
    edit,       \* what each request has read
    edits       \* how many there were

VersionVars == <<config, version, hash, history, edit, edits>>

Row(n, c) == [number |-> n, snapshot |-> c, hash |-> Manifest(c)]
Idle == [at |-> "idle"]

\* An agent is created with its first version.
VersionsInit ==
    \E c \in Configs :
        /\ config = c /\ version = 1 /\ hash = Manifest(c)
        /\ history = <<Row(1, c)>>
        /\ edit = [r \in Requests |-> Idle] /\ edits = 0

-----------------------------------------------------------------------------
Loaded(at, snapshot) ==
    [at |-> at, config |-> config, version |-> version, hash |-> hash, snapshot |-> snapshot]

Open(r, read) ==
    /\ edit[r] = Idle /\ edits < MaxEdits
    /\ edit' = [edit EXCEPT ![r] = read]
    /\ edits' = edits + 1
    /\ UNCHANGED <<config, version, hash, history>>

\* An edit has no use for a snapshot.
Load(r) == Open(r, Loaded("edit", config))

Numbered(n) == {i \in DOMAIN history : history[i].number = n}

\* restore_agent_version reads the one row of the number, too.
LoadVersion(r, i) ==
    /\ Numbered(history[i].number) = {i}
    /\ Open(r, Loaded("restore", history[i].snapshot))

\* Commit(r, c, n, h): the request writes c, version n and hash h.
Commit(r, c, n, h) ==
    /\ config' = [g \in Groups |-> IF c[g] # edit[r].config[g] THEN c[g] ELSE config[g]]
    /\ version' = IF n # edit[r].version THEN n ELSE version
    /\ hash' = IF h # edit[r].hash THEN h ELSE hash
    /\ edit' = [edit EXCEPT ![r] = Idle]
    /\ UNCHANGED edits

\* _make_agent_version_row: a row is added when the hash is a new one.
Recorded(r, c, n) ==
    history' = IF Manifest(c) # edit[r].hash THEN Append(history, Row(n, c)) ELSE history

NextVersion(r) == edit[r].version + 1

-----------------------------------------------------------------------------

\* patch_agent: any of the groups; a version is made when the body names a field
\* of main, or mode, which is in none of the groups.
Patch(r) ==
    /\ edit[r].at = "edit"
    /\ \E c \in Configs, named \in BOOLEAN :
          /\ c["main"] # edit[r].config["main"] => named
          /\ IF named THEN /\ Commit(r, c, NextVersion(r), Manifest(c))
                           /\ Recorded(r, c, NextVersion(r))
             ELSE /\ Commit(r, c, edit[r].version, edit[r].hash)
                  /\ UNCHANGED history

\* update_agent_mode writes limits into safety_config.
UpdateMode(r) ==
    /\ edit[r].at = "edit"
    /\ \E v \in Values : Commit(r, [edit[r].config EXCEPT !["extra"] = v],
                                edit[r].version, edit[r].hash)
    /\ UNCHANGED history

\* The settings page makes a version whenever the hash has changed, and so finds
\* out tuning that a patch had left unrecorded.
Rehash(r, c) ==
    LET n == IF Manifest(c) # edit[r].hash THEN NextVersion(r) ELSE edit[r].version
    IN  Commit(r, c, n, Manifest(c)) /\ Recorded(r, c, n)

UpdateSettings(r) ==
    /\ edit[r].at = "edit"
    /\ \E c \in Configs : c["tuning"] = edit[r].config["tuning"] /\ Rehash(r, c)

RegenerateHash(r) == edit[r].at = "edit" /\ Rehash(r, edit[r].config)

\* As the code must not be: the restored version's number is used again.
Restore_SameNumber(r) ==
    /\ edit[r].at = "restore"
    /\ Commit(r, edit[r].snapshot, edit[r].version, Manifest(edit[r].snapshot))
    /\ Recorded(r, edit[r].snapshot, edit[r].version)

Restore(r) ==
    /\ edit[r].at = "restore"
    /\ Commit(r, edit[r].snapshot, NextVersion(r), Manifest(edit[r].snapshot))
    /\ Recorded(r, edit[r].snapshot, NextVersion(r))

VersionsNext ==
    \E r \in Requests :
        \/ Load(r) \/ \E i \in DOMAIN history : LoadVersion(r, i)
        \/ Patch(r) \/ UpdateMode(r) \/ UpdateSettings(r) \/ RegenerateHash(r)
        \/ Restore(r)

VersionsSpec == VersionsInit /\ [][VersionsNext]_VersionVars

-----------------------------------------------------------------------------

\* While requests do not overlap, every version can be restored: no two rows have
\* one number, and no later edit can come to use a number again.
VersionsRestorable ==
    /\ \A i, j \in DOMAIN history : i # j => history[i].number # history[j].number
    /\ \A i \in DOMAIN history : history[i].number <= version

\* The docstring of restore_agent_version: a restore is not a destructive
\* overwrite, one can always undo a bad restore.  The configuration it replaces is
\* that of some version.
RestoreCanBeUndone ==
    [][\A r \in Requests : edit[r].at = "restore" /\ edit'[r] = Idle
        => \E i \in DOMAIN history : history[i].snapshot = config]_VersionVars
=============================================================================
