-------------------------------- MODULE Sysroot --------------------------------
(***************************************************************************)
(* The maintenance commands on the container's root file system:           *)
(* `init` (extract an OCI image into a staging directory, prepare it,      *)
(* rename it to ./sysroot, write config.toml, prepare ownership) and `fix` *)
(* (create mount targets, shift the owners of the whole tree into the      *)
(* subordinate range of the user namespace, leave a marker, check again).  *)
(* Nothing locks the directory: commands run side by side, crash between   *)
(* any two steps and are run again; in between the operator edits the      *)
(* configuration and /etc/subuid or removes the sysroot.                   *)
(*                                                                         *)
(* A path is the sequence of its components, <<>> the rootfs itself. A     *)
(* tree maps the paths that exist to their numeric owner; uid and gid are  *)
(* shifted together by one lchown and are one number here.                 *)
(***************************************************************************)
EXTENDS Integers, FiniteSets, SequencesExt

CONSTANTS
  Procs,          \* commands that can run at the same time
  Names,          \* names of files and directories
  Images,         \* OCI images: sequences of layers, sequences of entries
  Provisioned,    \* trees an operator may have unpacked by hand
  SystemMounts,   \* MOUNTPOINTS
  Workspace,      \* the "/workspace" target init prepares
  ExtraMounts,    \* targets the operator may add under [mounts]
  Features,       \* the [features] of config.toml
  Hosts,          \* first ids of sufficient ranges in /etc/subuid
  Size,           \* ID_MAP_SIZE
  MaxId,          \* u32::MAX
  MaxEdits        \* what the operator changes between commands

NoHost == -1   \* no usable range; no marker; user namespaces are ignored

(* first_range takes any range that is large enough and fits a u32; nothing *)
(* keeps ranges apart from each other or from the ids of a container.      *)
ASSUME HostsAssumption ==
  /\ Size \in Nat \ {0} /\ MaxId \in Nat /\ Size <= MaxId /\ MaxEdits \in Nat
  /\ Hosts \subseteq 0 .. MaxId

(* Files an image names stay below the root and a whiteout names one of    *)
(* them (validate_archive_path, "OCI whiteout has an empty target"). What  *)
(* an operator unpacks by hand is a tree; no file is owned by the last id. *)
Entries == [kind : {"file", "whiteout", "opaque"}, path : Seq(Names)]
Hidden(e, n) ==   \* remove_path, remove_children
  \/ e.kind = "whiteout" /\ IsPrefix(e.path, n)
  \/ e.kind = "opaque" /\ IsStrictPrefix(e.path, n)
Added(e, n) == e.kind = "file" /\ IsPrefix(n, e.path)

ASSUME ImagesAssumption ==
  \A i \in Images :
    /\ i \in Seq(Seq(Entries))
    /\ \A l \in DOMAIN i : \A k \in DOMAIN i[l] :
         i[l][k].kind = "whiteout" => i[l][k].path # <<>>

IsTree(t) ==
  /\ t \in [DOMAIN t -> 0 .. MaxId - 1]
  /\ DOMAIN t \subseteq Seq(Names)
  /\ \A n \in DOMAIN t : Prefixes(n) \subseteq DOMAIN t
ASSUME TreesAssumption ==
  /\ SystemMounts \cup {Workspace} \cup ExtraMounts \subseteq Seq(Names)
  /\ \A t \in Provisioned : IsTree(t)

VARIABLES
  rootfs,    \* the tree at rootfs_dir, empty when there is none
  config,    \* config.toml: "absent", "partial", "good"
  features,  \* its [features]
  mounts,    \* its mount targets, the system's included
  marker,    \* the mapping in bundle/rootfs-userns.mapping
  host,      \* the range /etc/subuid gives at present
  memory,    \* the host has the memory controller
  pc,        \* where each command is
  kind,      \* "init" or "fix"
  image,     \* the image of an init
  layer,     \* the layer it applies
  entry,     \* the entry of that layer it comes to next
  staging,   \* the staging tree of an init
  action,    \* the UserNamespaceAction: a mapping, or NoHost for Ignore
  todo,      \* paths the command has still to visit
  edits,     \* changes by the operator so far
  orig,      \* ghost: the owner each path was created with
  installed, \* ghost: the image the rootfs was made from
  walked,    \* ghost: the ranges with which walks of this rootfs began
  late       \* ghost: paths created once a marked walk had begun

disk == <<rootfs, config, marker>>
settings == <<features, mounts, host, memory, edits>>
unpack == <<image, layer, entry>>
local == <<kind, unpack, staging, action, todo>>
ghosts == <<orig, installed, walked, late>>
vars == <<disk, settings, pc, local, ghosts>>

NoTree == <<>>
Grow(tree, paths) ==
  [n \in DOMAIN tree \cup paths |-> IF n \in DOMAIN tree THEN tree[n] ELSE 0]
Children(tree, n) == {m \in DOMAIN tree : m # <<>> /\ Front(m) = n}
WithParents(paths) == UNION {Prefixes(n) : n \in paths}

-----------------------------------------------------------------------------
(* Applying one entry of a layer. Unpacking creates missing parents,       *)
(* everything owned by the user who runs init; a whiteout removes a path   *)
(* with all below it, an opaque one what is below.                         *)
apply_entry(tree, e) ==
  IF e.kind = "file" THEN Grow(tree, Prefixes(e.path))
  ELSE [n \in {m \in DOMAIN tree : ~Hidden(e, m)} |-> tree[n]]

(* What the image is to contain, by the OCI image specification: a path    *)
(* some layer adds, itself or as a parent, and no later layer hides.       *)
Adds(entries, n) == \E k \in DOMAIN entries : Added(entries[k], n)
Hides(entries, n) == \E k \in DOMAIN entries : Hidden(entries[k], n)
KeptAbove(layers, i, n) == \A j \in DOMAIN layers : j > i => ~Hides(layers[j], n)
Contents(layers) ==
  {<<>>} \cup
  {n \in UNION {Prefixes(e.path) : e \in UNION {ToSet(l) : l \in ToSet(layers)}} :
     \E i \in DOMAIN layers : Adds(layers[i], n) /\ KeptAbove(layers, i, n)}

(* What apply_layer takes away from that: it follows the archive, so a     *)
(* whiteout also hides what its own layer has added before it.             *)
Clobbered(layers) ==
  {n \in Contents(layers) \ {<<>>} :
     \A i \in DOMAIN layers : KeptAbove(layers, i, n) =>
       \A b \in DOMAIN layers[i] : Added(layers[i][b], n) =>
         \E d \in DOMAIN layers[i] : d > b /\ Hidden(layers[i][d], n)}

-----------------------------------------------------------------------------
(* What detect() finds now: the range `host`, whose lookup is left out, if *)
(* its last id is a u32 (checked_add), and the right to use it; or NoHost. *)
detect == IF host # NoHost /\ host + Size - 1 <= MaxId THEN host ELSE NoHost
available == detect # NoHost

(* FeaturesConfig::resolve: the mapping, NoHost for Ignore, or -2 for Err. *)
Unresolved == -2
resolve ==
  IF features.cgroups = "required" /\ ~memory THEN Unresolved
  ELSE IF features.user_namespace = "disabled" THEN NoHost
  ELSE IF ~available THEN Unresolved ELSE detect

(* host_id.saturating_add(size) *)
RangeEnd(h) == IF h + Size > MaxId THEN MaxId ELSE h + Size
mapped_id(id, h) == id >= h /\ id < RangeEnd(h)

(* A slip: ids that lie in the range already are shifted once more. *)
MutShiftedId(id, h) == IF id + h > MaxId THEN Unresolved ELSE id + h

(* shifted_id; Unresolved stands for its errors. *)
shifted_id(id, h) ==
  IF mapped_id(id, h) THEN id
  ELSE IF id >= Size \/ h + id > MaxId THEN Unresolved
  ELSE h + id

(* lchown does not set the last id, which it reads as "leave it alone". *)
lchown(old, new) == IF new = MaxId THEN old ELSE new

(* The maintenance commands and start refuse when there is any of these.   *)
sysroot_issues == mounts \ DOMAIN rootfs
identity_issues(h) ==
  IF h = NoHost THEN {}
  ELSE IF marker # h THEN {"marker"}
  ELSE {n \in DOMAIN rootfs : ~mapped_id(rootfs[n], h)}

-----------------------------------------------------------------------------
Init ==
  /\ rootfs \in Provisioned \cup {NoTree}
  /\ config \in IF rootfs = NoTree THEN {"absent", "good"} ELSE {"good"}
  /\ features \in Features
  /\ mounts = SystemMounts \cup {Workspace}
  /\ marker = NoHost
  /\ host \in Hosts
  /\ memory \in BOOLEAN
  /\ pc = [p \in Procs |-> "idle"]
  /\ kind = [p \in Procs |-> "fix"]
  /\ image = [p \in Procs |-> <<>>]
  /\ layer = [p \in Procs |-> 1]
  /\ entry = [p \in Procs |-> 1]
  /\ staging = [p \in Procs |-> NoTree]
  /\ action = [p \in Procs |-> NoHost]
  /\ todo = [p \in Procs |-> {}]
  /\ edits = 0
  /\ orig = rootfs
  /\ installed = <<>>
  /\ walked = {}
  /\ late = {}

At(p, from, to) == pc[p] = from /\ pc' = [pc EXCEPT ![p] = to]

(* The command ends; its locals are gone and so is the staging directory,  *)
(* which a failed init removes.                                            *)
End(p) ==
  /\ pc' = [pc EXCEPT ![p] = "idle"]
  /\ kind' = [kind EXCEPT ![p] = "fix"]
  /\ image' = [image EXCEPT ![p] = <<>>]
  /\ layer' = [layer EXCEPT ![p] = 1]
  /\ entry' = [entry EXCEPT ![p] = 1]
  /\ staging' = [staging EXCEPT ![p] = NoTree]
  /\ action' = [action EXCEPT ![p] = NoHost]
  /\ todo' = [todo EXCEPT ![p] = {}]

(* run_in refuses an existing sysroot, then creates the staging directory. *)
StartInit(p) ==
  /\ At(p, "idle", "extract")
  /\ rootfs = NoTree
  /\ kind' = [kind EXCEPT ![p] = "init"]
  /\ image' \in {[image EXCEPT ![p] = i] : i \in Images}
  /\ staging' = [staging EXCEPT ![p] = Grow(NoTree, {<<>>})]
  /\ UNCHANGED <<disk, settings, layer, entry, action, todo, ghosts>>

(* A slip: an opaque whiteout is passed over. *)
MutApplyEntry(p) ==
  /\ pc[p] = "extract"
  /\ layer[p] <= Len(image[p])
  /\ entry[p] <= Len(image[p][layer[p]])
  /\ LET e == image[p][layer[p]][entry[p]] IN
     staging' = [staging EXCEPT ![p] = IF e.kind = "opaque" THEN @
                                       ELSE apply_entry(@, e)]
  /\ entry' = [entry EXCEPT ![p] = @ + 1]
  /\ UNCHANGED <<disk, settings, pc, kind, image, layer, action, todo, ghosts>>

(* apply_layer: the entries in the order of the archive. *)
ApplyEntry(p) ==
  /\ pc[p] = "extract"
  /\ layer[p] <= Len(image[p])
  /\ entry[p] <= Len(image[p][layer[p]])
  /\ staging' = [staging EXCEPT ![p] =
                   apply_entry(@, image[p][layer[p]][entry[p]])]
  /\ entry' = [entry EXCEPT ![p] = @ + 1]
  /\ UNCHANGED <<disk, settings, pc, kind, image, layer, action, todo, ghosts>>

(* apply_layout: the digest of the next layer is verified. *)
NextLayer(p) ==
  /\ pc[p] = "extract"
  /\ layer[p] <= Len(image[p])
  /\ entry[p] > Len(image[p][layer[p]])
  /\ layer' = [layer EXCEPT ![p] = @ + 1]
  /\ entry' = [entry EXCEPT ![p] = 1]
  /\ UNCHANGED <<disk, settings, pc, kind, image, staging, action, todo, ghosts>>

PrepareStaging(p) ==
  /\ At(p, "extract", "install")
  /\ layer[p] > Len(image[p])
  /\ staging' = [staging EXCEPT ![p] =
                   Grow(@, WithParents(SystemMounts \cup {Workspace}))]
  /\ UNCHANGED <<disk, settings, kind, unpack, action, todo, ghosts>>

(* A slip: an existing target is replaced. *)
MutInstall(p) ==
  /\ At(p, "install", "config")
  /\ rootfs' = staging[p]
  /\ staging' = [staging EXCEPT ![p] = NoTree]
  /\ orig' = staging[p]
  /\ installed' = image[p]
  /\ walked' = {}
  /\ late' = IF marker = NoHost THEN {} ELSE DOMAIN staging[p]
  /\ UNCHANGED <<config, marker, settings, kind, unpack, action, todo>>

(* rename(2) does not replace a directory that is not empty. *)
Install(p) ==
  /\ At(p, "install", "config")
  /\ rootfs = NoTree
  /\ rootfs' = staging[p]
  /\ staging' = [staging EXCEPT ![p] = NoTree]
  /\ orig' = staging[p]
  /\ installed' = image[p]
  /\ walked' = {}
  /\ late' = IF marker = NoHost THEN {} ELSE DOMAIN staging[p]
  /\ UNCHANGED <<config, marker, settings, kind, unpack, action, todo>>

InstallFails(p) ==
  /\ pc[p] = "install"
  /\ rootfs # NoTree
  /\ End(p)
  /\ UNCHANGED <<disk, settings, ghosts>>

(* write_config_if_missing: create_new, then write_all; the file is        *)
(* removed again when that fails.                                          *)
KeepConfig(p) ==
  /\ At(p, "config", "load")
  /\ config # "absent"
  /\ UNCHANGED <<disk, settings, local, ghosts>>

CreateConfig(p) ==
  /\ At(p, "config", "write")
  /\ config = "absent"
  /\ config' = "partial"
  /\ UNCHANGED <<rootfs, marker, settings, local, ghosts>>

generated_config ==
  [cgroups |-> IF memory THEN "required" ELSE "disabled",
   user_namespace |-> "enabled"]

WriteConfig(p) ==
  /\ At(p, "write", "load")
  /\ config' = "good"
  /\ features' = generated_config
  /\ UNCHANGED <<rootfs, marker, mounts, host, memory, edits, local, ghosts>>

WriteConfigFails(p) ==
  /\ pc[p] = "write"
  /\ config' = "absent"
  /\ End(p)
  /\ UNCHANGED <<rootfs, marker, settings, ghosts>>

-----------------------------------------------------------------------------
StartFix(p) ==
  /\ At(p, "idle", "load")
  /\ UNCHANGED <<disk, settings, local, ghosts>>

(* Config::load needs the rootfs directory; then the features are resolved *)
(* against the host as it is now.                                          *)
Loadable == config = "good" /\ rootfs # NoTree /\ resolve # Unresolved

LoadConfig(p) ==
  /\ At(p, "load", "mounts")
  /\ Loadable
  /\ action' = [action EXCEPT ![p] = resolve]
  /\ todo' = [todo EXCEPT ![p] = mounts]
  /\ UNCHANGED <<disk, settings, kind, unpack, staging, ghosts>>

LoadFails(p) ==
  /\ pc[p] = "load"
  /\ ~Loadable
  /\ End(p)
  /\ UNCHANGED <<disk, settings, ghosts>>

(* prepare_sysroot: a missing mount target is created with its parents,    *)
(* owned by the user who runs the command.                                 *)
EnsureMount(p, n) ==
  /\ pc[p] = "mounts"
  /\ n \in todo[p]
  /\ rootfs' = Grow(rootfs, Prefixes(n))
  /\ orig' = Grow(orig, Prefixes(n))
  /\ late' = IF \/ marker # NoHost
                \/ \E q \in Procs : pc[q] \in {"shift", "mark"}
             THEN late \cup (Prefixes(n) \ DOMAIN rootfs) ELSE late
  /\ todo' = [todo EXCEPT ![p] = @ \ {n}]
  /\ UNCHANGED <<config, marker, settings, pc, kind, unpack, staging, action,
                 installed, walked>>

MountsReady(p) ==
  /\ At(p, "mounts", "identity")
  /\ todo[p] = {}
  /\ UNCHANGED <<disk, settings, local, ghosts>>

(* Nothing to shift: user namespaces are off, or the marker names this     *)
(* mapping.                                                                *)
AlreadyPrepared(p) ==
  /\ At(p, "identity", "prepared")
  /\ action[p] \in {NoHost, marker}
  /\ UNCHANGED <<disk, settings, local, ghosts>>

OtherMapping(p) ==
  /\ pc[p] = "identity"
  /\ action[p] # NoHost /\ marker \notin {NoHost, action[p]}
  /\ End(p)
  /\ UNCHANGED <<disk, settings, ghosts>>

BeginShift(p) ==
  /\ At(p, "identity", "shift")
  /\ action[p] # NoHost /\ marker = NoHost
  /\ todo' = [todo EXCEPT ![p] = {<<>>}]
  /\ walked' = walked \cup {action[p]}
  /\ UNCHANGED <<disk, settings, kind, unpack, staging, action, orig, installed,
                 late>>

(* shift_entry: lchown, then the children a directory has by now. Commands *)
(* that run together have resolved the same mapping, so reading the owner  *)
(* and changing it is one step.                                            *)
ShiftEntry(p, n) ==
  /\ pc[p] = "shift"
  /\ n \in todo[p]
  /\ shifted_id(rootfs[n], action[p]) # Unresolved
  /\ rootfs' = [rootfs EXCEPT ![n] = lchown(@, shifted_id(@, action[p]))]
  /\ todo' = [todo EXCEPT ![p] = (@ \ {n}) \cup Children(rootfs, n)]
  /\ UNCHANGED <<config, marker, settings, pc, kind, unpack, staging, action,
                 ghosts>>

ShiftFails(p, n) ==
  /\ pc[p] = "shift"
  /\ n \in todo[p]
  /\ shifted_id(rootfs[n], action[p]) = Unresolved
  /\ End(p)
  /\ UNCHANGED <<disk, settings, ghosts>>

(* A slip: the marker is written while entries are left. *)
MutShiftDone(p) ==
  /\ At(p, "shift", "mark")
  /\ <<>> \notin todo[p]
  /\ UNCHANGED <<disk, settings, local, ghosts>>

ShiftDone(p) ==
  /\ At(p, "shift", "mark")
  /\ todo[p] = {}
  /\ UNCHANGED <<disk, settings, local, ghosts>>

(* write_marker_atomically: nobody looks at the temporary file. *)
WriteMarker(p) ==
  /\ At(p, "mark", "prepared")
  /\ marker' = action[p]
  /\ UNCHANGED <<rootfs, config, settings, local, ghosts>>

(* init prints what it did, fix inspects again; neither changes anything.  *)
Finish(p) ==
  /\ pc[p] = "prepared"
  /\ End(p)
  /\ UNCHANGED <<disk, settings, ghosts>>

(* Any other step may fail with an I/O error, and the process may be       *)
(* killed; a killed init leaves its staging directory, which nobody uses.  *)
FailOrCrash(p) ==
  /\ pc[p] # "idle"
  /\ End(p)
  /\ UNCHANGED <<disk, settings, ghosts>>

Command(p) ==
  \/ StartInit(p)
  \/ ApplyEntry(p)
  \/ NextLayer(p)
  \/ PrepareStaging(p)
  \/ Install(p)
  \/ InstallFails(p)
  \/ KeepConfig(p)
  \/ CreateConfig(p)
  \/ WriteConfig(p)
  \/ WriteConfigFails(p)
  \/ StartFix(p)
  \/ LoadConfig(p)
  \/ LoadFails(p)
  \/ \E n \in todo[p] : EnsureMount(p, n) \/ ShiftEntry(p, n) \/ ShiftFails(p, n)
  \/ MountsReady(p)
  \/ AlreadyPrepared(p)
  \/ OtherMapping(p)
  \/ BeginShift(p)
  \/ ShiftDone(p)
  \/ WriteMarker(p)
  \/ Finish(p)
  \/ FailOrCrash(p)

-----------------------------------------------------------------------------
(* Between commands the operator adds a mount, changes /etc/subuid, or     *)
(* removes the sysroot "to start over", as the message of init says.       *)
Edit ==
  /\ edits < MaxEdits
  /\ \A p \in Procs : pc[p] = "idle"
  /\ edits' = edits + 1
  /\ UNCHANGED <<config, marker, features, memory, pc, local>>

AddMount(n) ==
  /\ Edit
  /\ config = "good" /\ n \notin mounts
  /\ mounts' = mounts \cup {n}
  /\ UNCHANGED <<rootfs, host, ghosts>>

ChangeRange(h) ==
  /\ Edit
  /\ h # host
  /\ host' = h
  /\ UNCHANGED <<rootfs, mounts, ghosts>>

RemoveSysroot ==
  /\ Edit
  /\ rootfs # NoTree
  /\ rootfs' = NoTree
  /\ orig' = NoTree
  /\ installed' = <<>>
  /\ walked' = {}
  /\ late' = {}
  /\ UNCHANGED <<mounts, host>>

Next ==
  \/ \E p \in Procs : Command(p)
  \/ \E n \in ExtraMounts : AddMount(n)
  \/ \E h \in Hosts \cup {NoHost} : ChangeRange(h)
  \/ RemoveSysroot

Spec == Init /\ [][Next]_vars

-----------------------------------------------------------------------------
AllMounts == SystemMounts \cup {Workspace} \cup ExtraMounts
MountPaths == WithParents(AllMounts)

(* README.md, "applies layers including whiteouts, and installs the result *)
(* atomically": whatever crashed, failed or ran at the same time, a        *)
(* sysroot that init made is the whole image and has the system's mount    *)
(* points; past the mounts of a command, whoever runs beside it, none is   *)
(* missing. The image is not whole in one case, and then lacks exactly     *)
(* this: what a layer adds before a whiteout of its own (archive.rs:136).  *)
CompleteInstall ==
  /\ installed # <<>> =>
       LET whole == Contents(installed) \ Clobbered(installed) IN
       /\ whole \cup SystemMounts \subseteq DOMAIN rootfs
       /\ DOMAIN rootfs \subseteq whole \cup MountPaths
  /\ (\E p \in Procs : pc[p] \in {"identity", "shift", "mark", "prepared"})
       => sysroot_issues = {}

(* Over crashes, reruns and changes of the range no owner is shifted       *)
(* twice, if the ranges lie above the ids of a container, even ranges that *)
(* overlap; and no two entries are shifted with different ranges, if those *)
(* in use also lie apart and below the last id, or there is only one.      *)
RangesAbove == \A h \in walked : Size <= h
RangesApart ==
  \A g, h \in walked : g < h => Size <= g /\ g + Size <= h /\ h + Size <= MaxId
ShiftedOnce ==
  /\ RangesAbove =>
       \A n \in DOMAIN rootfs :
         rootfs[n] # orig[n] => \E h \in walked : rootfs[n] = orig[n] + h
  /\ RangesApart =>
       \E h \in walked \cup {0} :
         \A n \in DOMAIN rootfs : rootfs[n] \in {orig[n], orig[n] + h}

(* The marker is a promise about the tree: what was there when the fix     *)
(* that wrote it walked the tree has an owner in the marked range. Where   *)
(* that range ends at the last id of all, the last id of a container is    *)
(* left as it is.                                                          *)
Settled(id, h) == mapped_id(id, h) \/ (id = Size - 1 /\ id + h = MaxId)
MarkerMeansShifted ==
  marker # NoHost =>
    \A n \in DOMAIN rootfs \ late : Settled(rootfs[n], marker)

(* README.md, "Existing sysroot directories and configuration files are    *)
(* never overwritten": a command adds mount targets and changes owners,    *)
(* no step of one replaces a tree or a complete configuration.             *)
NeverOverwritten ==
  [][\/ \A p \in Procs : pc[p] = "idle"
     \/ /\ DOMAIN rootfs \subseteq DOMAIN rootfs'
        /\ \A n \in DOMAIN orig : orig'[n] = orig[n]
        /\ rootfs # NoTree => installed' = installed
        /\ config = "good" => config' = "good"]_vars

(* README.md, "`fix` prepares rootfs ownership for that mapping": when     *)
(* ownership has been prepared, every entry is inside the range.           *)
FixPreparesOwnership ==
  \A p \in Procs :
    pc[p] = "prepared" => identity_issues(action[p]) = {}
=============================================================================
