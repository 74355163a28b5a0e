------------------------------- MODULE Resolver -------------------------------
(***************************************************************************)
(* The resolver file of the application (tc002/Tc002Dns.cpp): the DNS      *)
(* servers that DHCP or the configuration name are written to a private    *)
(* file, which is bind-mounted over /etc/resolv.conf in a mount namespace  *)
(* of the application's own.                                               *)
(*                                                                         *)
(* begin and stop run on the main thread, refresh on the network worker.   *)
(* They never overlap, because begin comes before the worker is started    *)
(* and stop after it was joined: each call is one step.  A call of the     *)
(* system that can fail may fail.                                          *)
(***************************************************************************)
EXTENDS Integers, Sequences

CONSTANTS
  Addresses,    \* usable IPv4 addresses
  Garbage,      \* what else a property or a setting may hold
  NetStatic,    \* what netStatic may be: addresses configured or from DHCP
  MaxChanges    \* bound: changes of the servers named

ResolverAssumption ==
  /\ Addresses # {} /\ Addresses \cap Garbage = {}
  /\ NetStatic \subseteq BOOLEAN /\ NetStatic # {}
  /\ MaxChanges \in Nat

VARIABLES
  phase,    \* "off", "begun", "stopped"
  static,   \* cfg.netStatic, fixed for the life of the process
  named,    \* the two texts each source holds now
  changes,
  path,     \* path_ names the temporary file
  content,  \* the file: the addresses in it, in order
  mounted,  \* mounted_
  current,  \* current_
  settled,  \* the last refresh found nothing left to do
  torn      \* history: the last write failed, after the file was truncated

resolver == <<content, mounted, current, settled, torn>>
vars == <<phase, static, named, changes, path, resolver>>

Sources == IF static THEN {"configured"} ELSE {"wlan0", "global"}
Texts == Addresses \cup Garbage
MaxNs == 3   \* libc's MAXNS

-----------------------------------------------------------------------------
\* Variant: the texts are taken as they are.
ResolverConfigTrusting(texts) == texts

\* resolverConfig: the usable addresses, each once, in order, three at most.
ResolverConfig(texts) ==
  LET accepted[n \in 0..Len(texts)] ==
        IF n = 0 THEN <<>>
        ELSE LET before == accepted[n - 1]
             IN  IF \/ texts[n] \notin Addresses \/ Len(before) = MaxNs
                    \/ \E k \in DOMAIN before : before[k] = texts[n]
                   THEN before
                   ELSE Append(before, texts[n])
  IN  accepted[Len(texts)]

\* configuredDns: the servers of the interface before the global ones.
ConfiguredDns ==
  IF static THEN ResolverConfig(named["configured"])
  ELSE LET own == ResolverConfig(named["wlan0"])
       IN  IF own # <<>> THEN own ELSE ResolverConfig(named["global"])

\* Variants: an empty list is written like any other; what was written once is
\* never written again.
EmptyIsNews(wanted) == mounted /\ wanted = current
MountedIsEnough(wanted) == wanted = <<>> \/ mounted

\* The existing resolver is kept as long as no usable server is named.
NothingToDo(wanted) == wanted = <<>> \/ (mounted /\ wanted = current)

\* A failed open changes nothing.  A failed write leaves what it wrote in the
\* truncated file, mounted or not, and current_ as it was.  A complete file is
\* mounted the first time, and only then becomes current_.
Rewrite(wanted) ==
  \/ /\ settled' = FALSE
     /\ UNCHANGED <<content, mounted, current, torn>>
  \/ /\ \E n \in 0..Len(wanted) - 1 : content' = SubSeq(wanted, 1, n)
     /\ settled' = FALSE /\ torn' = TRUE
     /\ UNCHANGED <<mounted, current>>
  \/ /\ content' = wanted
     /\ mounted' \in {mounted, TRUE}
     /\ current' = IF mounted' THEN wanted ELSE current
     /\ settled' = mounted' /\ torn' = FALSE

Refresh(hasPath) ==
  IF ~hasPath \/ NothingToDo(ConfiguredDns)
    THEN settled' = TRUE /\ UNCHANGED <<content, mounted, current, torn>>
    ELSE Rewrite(ConfiguredDns)

-----------------------------------------------------------------------------
\* begin: without a mount namespace or a temporary file there is no path_, and
\* every later call is void.
Begin ==
  /\ phase = "off"
  /\ phase' = "begun"
  /\ path' \in BOOLEAN
  /\ Refresh(path')
  /\ UNCHANGED <<static, named, changes>>

\* The worker's refresh, every second while the clock is associated.
WorkerRefresh ==
  /\ phase = "begun"
  /\ Refresh(path)
  /\ UNCHANGED <<phase, static, named, changes, path>>

StopWith(unmounted) ==
  /\ phase \in {"begun", "stopped"}
  /\ phase' = "stopped"
  /\ mounted' = IF unmounted THEN FALSE ELSE mounted
  /\ path' = FALSE /\ content' = <<>> /\ current' = <<>> /\ torn' = FALSE
  /\ UNCHANGED <<static, named, changes, settled>>

\* Variant: the file goes even if it cannot be unmounted.
StopAnyway == StopWith(TRUE) \/ StopWith(FALSE)

\* stop, by System::stop and again by the destructors: a mount that cannot be
\* removed stays, and the file with it.
Stop ==
  \/ StopWith(TRUE)
  \/ /\ phase = "begun" /\ mounted
     /\ phase' = "stopped"
     /\ UNCHANGED <<static, named, changes, path, resolver>>

\* DHCP renews with other servers, or none.
Rename ==
  /\ ~static
  /\ changes < MaxChanges
  /\ changes' = changes + 1
  /\ named' \in [Sources -> Texts \X Texts]
  /\ UNCHANGED <<phase, static, path, resolver>>

Init ==
  /\ phase = "off"
  /\ static \in NetStatic
  /\ named \in [Sources -> Texts \X Texts]
  /\ changes = 0
  /\ path = FALSE
  /\ content = <<>> /\ mounted = FALSE /\ current = <<>>
  /\ settled = FALSE /\ torn = FALSE

Next == Begin \/ WorkerRefresh \/ Stop \/ Rename

Spec == Init /\ [][Next]_vars

\* The worker goes round as long as it is there, and opening, writing and
\* mounting the file does not fail every time.
FairSpec ==
  /\ Spec
  /\ WF_vars(WorkerRefresh)
  /\ SF_vars(WorkerRefresh /\ settled')

-----------------------------------------------------------------------------
TypeOK ==
  /\ phase \in {"off", "begun", "stopped"}
  /\ static \in NetStatic
  /\ named \in [Sources -> Texts \X Texts]
  /\ changes \in 0..MaxChanges
  /\ {path, mounted, settled, torn} \subseteq BOOLEAN
  /\ {content, current} \subseteq Seq(Addresses)
  /\ Len(content) <= MaxNs

\* Whoever looks up a name while the file is mounted finds a server in it, in
\* every sequence of leases, losses of leases, failed calls and stops, unless
\* the last write of it failed half-way.
MountedIsUsable == mounted => path /\ (content # <<>> \/ torn)

\* Once DHCP stops changing its mind the mounted file names its servers,
\* whatever failed on the way there.  Only the rest of a failed write may stay,
\* when DHCP goes back to the servers in current_.
FollowsDhcp ==
  (phase = "begun" /\ path /\ ConfiguredDns # <<>>) ~>
    (\/ phase = "stopped" \/ ConfiguredDns = <<>>
     \/ mounted /\ content = ConfiguredDns
     \/ mounted /\ torn /\ current = ConfiguredDns)
=============================================================================
