--------------------------- MODULE PluginRegistry ---------------------------
(***************************************************************************)
(* The plugin registry of plugins/registry, plugins/installer and           *)
(* plugins/marketplace, for one plugin.  A package is reviewed, the user    *)
(* confirms the review with the permissions that are granted, the package   *)
(* is unpacked into the directory of its version and the version, the       *)
(* active pointer and the grants are committed together.  Every mutation    *)
(* holds mutation_lock; the workflow executor and the revocation feed do    *)
(* not.  Install and uninstall change the disk and the database in several  *)
(* steps, and the program may crash between any two of them.                *)
(***************************************************************************)
EXTENDS Integers, Sequences, FiniteSets

CONSTANTS
  Packages,   \* packages: [version, publisher, sig], sig one of SignatureKinds
  Manifest,   \* the permissions each version asks for
  MAX_REVIEWS, \* install reviews that may be pending
  MaxRevocations \* bound on the entries of the revocation feed

Versions == DOMAIN Manifest

NoVersion == "none"

Permissions == UNION {Manifest[v] : v \in Versions}

Publishers == {p.publisher : p \in Packages}

SignatureKinds == {"none", "forged", "unknown", "known"}

ASSUME RegistryAssumption ==
  /\ Packages \subseteq [version : Versions, publisher : Publishers, sig : SignatureKinds]
  /\ NoVersion \notin Versions
  /\ MAX_REVIEWS \in Nat \ {0} /\ MaxRevocations \in Nat

VARIABLES
  rows,     \* the installed versions: NoRow, or the publisher and the enabled flag
  active,   \* the version the active pointer names, or NoVersion
  listed,   \* the permissions that have a grant row
  granted,  \* those of them the user granted
  dirs,     \* the versions that have a directory
  reviews,  \* the pending install reviews
  revoked,  \* what the revocation feed has named: "plugin", "key" or versions
  op        \* the mutation that holds mutation_lock with steps still to do

registryVars == <<rows, active, listed, granted, dirs, reviews, revoked, op>>

NoRow == [pub |-> "none", signed |-> FALSE, enabled |-> FALSE]

Free == [kind |-> "free"]

Installed == {v \in Versions : rows[v] # NoRow}

RegistryInit ==
  /\ rows = [v \in Versions |-> NoRow]
  /\ active = NoVersion /\ listed = {} /\ granted = {} /\ dirs = {}
  /\ reviews = {} /\ revoked = {} /\ op = Free

(* The active pointer joined with the row it names.                         *)
get_active == IF active \in Installed THEN active ELSE NoVersion

(* The permissions the manifest inside a package asks for.                  *)
inspect_package(pkg) == Manifest[pkg.version]

(* What verify_package makes of a signature with the keys known now.        *)
verify_package(pkg) ==
  CASE pkg.sig = "none" -> "Unsigned"
    [] pkg.sig = "forged" -> "InvalidSignature"
    [] pkg.sig = "unknown" -> "UnknownPublisher"
    [] pkg.sig = "known" /\ "key" \in revoked -> "RevokedKey"
    [] OTHER -> "Trusted"

allows_install(trust, developer_mode) ==
  trust = "Trusted" \/ (trust = "Unsigned" /\ developer_mode)

is_revoked(entry) == entry \in revoked

(* is_revoked and the security status; the signing key counts for a version *)
(* that is on disk with its signature.                                      *)
require_not_revoked(v) ==
  /\ ~is_revoked("plugin") /\ ~is_revoked(v)
  /\ v \in Installed /\ rows[v].signed => "key" \notin revoked

Baseline ==
  [version |-> get_active, enabled |-> get_active # NoVersion /\ rows[get_active].enabled,
   listed |-> listed, granted |-> granted]

SamePublisher(pkg) == get_active # NoVersion => rows[get_active].pub = pkg.publisher

-----------------------------------------------------------------------------
(* The user inspects a package, from a file or from the marketplace.        *)

prepare_install(pkg, developer_mode) ==
  /\ op = Free
  /\ Cardinality({r \in reviews : ~r.expired}) < MAX_REVIEWS
  /\ allows_install(verify_package(pkg), developer_mode)
  /\ require_not_revoked(pkg.version)
  /\ pkg.version \notin Installed
  /\ SamePublisher(pkg)
  /\ reviews' = {r \in reviews : ~r.expired} \cup
       {[pkg |-> pkg, additions |-> inspect_package(pkg) \ granted, baseline |-> Baseline,
         expired |-> FALSE]}
  /\ UNCHANGED <<rows, active, listed, granted, dirs, revoked, op>>

ReviewExpires(r) ==
  /\ r \in reviews /\ ~r.expired
  /\ reviews' = (reviews \ {r}) \cup {[r EXCEPT !.expired = TRUE]}
  /\ UNCHANGED <<rows, active, listed, granted, dirs, revoked, op>>

discard_install_review(r) ==
  /\ r \in reviews
  /\ reviews' = reviews \ {r}
  /\ UNCHANGED <<rows, active, listed, granted, dirs, revoked, op>>

(* Mutant: the reviews of the plugin stay pending.                          *)
KeepReviews == reviews

(* There is one plugin, so every review is of it.                           *)
invalidate_install_reviews == {}

(* The checks of install_inner, made again under the lock.                  *)
MayInstall(pkg, developer_mode) ==
  /\ allows_install(verify_package(pkg), developer_mode)
  /\ SamePublisher(pkg)
  /\ ~is_revoked("plugin") /\ ~is_revoked(pkg.version)
  /\ get_active # pkg.version
  /\ pkg.version \notin dirs

(* A staging directory is filled and renamed: all of the package or nothing. *)
unpack_package(pkg) == dirs' = dirs \cup {pkg.version}

(* confirm_install consumes the review whether or not it goes on to         *)
(* install_inner, which unpacks first; unpack_package may fail and removes   *)
(* its staging directory then.                                              *)
confirm_install(r, grants, developer_mode, unpacks) ==
  /\ op = Free /\ r \in reviews
  /\ reviews' = reviews \ {r}
  /\ IF /\ ~r.expired /\ r.baseline = Baseline
        /\ grants \subseteq inspect_package(r.pkg)
        /\ MayInstall(r.pkg, developer_mode) /\ unpacks
     THEN /\ unpack_package(r.pkg)
          /\ op' = [kind |-> "install", pkg |-> r.pkg, grants |-> grants]
     ELSE UNCHANGED <<dirs, op>>
  /\ UNCHANGED <<rows, active, listed, granted, revoked>>

install_version ==
  /\ op.kind = "install"
  /\ LET v == op.pkg.version
     IN /\ rows' = [rows EXCEPT ![v] =
              [pub |-> op.pkg.publisher, signed |-> op.pkg.sig # "none",
               enabled |-> get_active = NoVersion \/ rows[get_active].enabled]]
        /\ active' = v /\ listed' = Manifest[v]
  /\ granted' = op.grants
  /\ reviews' = invalidate_install_reviews
  /\ op' = Free
  /\ UNCHANGED <<dirs, revoked>>

(* The transaction fails: the directory is removed again.                   *)
InstallFails ==
  /\ op.kind = "install"
  /\ dirs' = dirs \ {op.pkg.version}
  /\ op' = Free
  /\ UNCHANGED <<rows, active, listed, granted, reviews, revoked>>

-----------------------------------------------------------------------------
activate_version(v) ==
  /\ op = Free /\ v \in Installed
  /\ require_not_revoked(v)
  /\ Manifest[v] \subseteq listed
  /\ active' = v
  /\ reviews' = invalidate_install_reviews
  /\ UNCHANGED <<rows, listed, granted, dirs, revoked, op>>

set_enabled(on) ==
  /\ op = Free /\ get_active # NoVersion
  /\ on => require_not_revoked(get_active)
  /\ rows' = [rows EXCEPT ![get_active].enabled = on]
  /\ reviews' = invalidate_install_reviews
  /\ UNCHANGED <<active, listed, granted, dirs, revoked, op>>

(* Uninstall deletes the grants, the active pointer and the rows in three   *)
(* statements, then the directories.                                        *)
uninstall ==
  /\ op = Free /\ get_active # NoVersion
  /\ reviews' = invalidate_install_reviews
  /\ op' = [kind |-> "uninstall", next |-> 1]
  /\ UNCHANGED <<rows, active, listed, granted, dirs, revoked>>

(* Mutant: the directories go first.                                        *)
UninstallOrderDisk == <<"dirs", "grants", "active", "rows">>

UninstallOrder == <<"grants", "active", "rows", "dirs">>

UninstallStep ==
  /\ op.kind = "uninstall"
  /\ LET what == UninstallOrder[op.next]
     IN /\ listed' = IF what = "grants" THEN {} ELSE listed
        /\ granted' = IF what = "grants" THEN {} ELSE granted
        /\ active' = IF what = "active" THEN NoVersion ELSE active
        /\ rows' = IF what = "rows" THEN [v \in Versions |-> NoRow] ELSE rows
        /\ dirs' = IF what = "dirs" THEN {} ELSE dirs
  /\ op' = IF op.next = Len(UninstallOrder) THEN Free ELSE [op EXCEPT !.next = @ + 1]
  /\ UNCHANGED <<reviews, revoked>>

(* An entry of the revocation feed; nothing takes one back.                 *)
apply_revocation_feed(entry) ==
  /\ entry \notin revoked /\ Cardinality(revoked) < MaxRevocations
  /\ revoked' = revoked \cup {entry}
  /\ UNCHANGED <<rows, active, listed, granted, dirs, reviews, op>>

(* A crash loses the lock and the reviews; startup_recovery only removes    *)
(* staging directories.                                                     *)
RegistryRestart ==
  /\ reviews' = {} /\ op' = Free
  /\ UNCHANGED <<rows, active, listed, granted, dirs, revoked>>

RegistryNext ==
  \/ \E pkg \in Packages, dev \in BOOLEAN : prepare_install(pkg, dev)
  \/ \E r \in reviews : ReviewExpires(r) \/ discard_install_review(r)
  \/ \E r \in reviews, g \in SUBSET Permissions, dev, ok \in BOOLEAN : confirm_install(r, g, dev, ok)
  \/ install_version \/ InstallFails
  \/ \E v \in Versions : activate_version(v)
  \/ \E on \in BOOLEAN : set_enabled(on)
  \/ uninstall \/ UninstallStep
  \/ \E e \in {"plugin", "key"} \cup Versions : apply_revocation_feed(e)

-----------------------------------------------------------------------------
(* A version the database names has its directory, whatever crash came      *)
(* between the steps of an install or an uninstall: load_manifest reads it  *)
(* every time the plugin is used.                                           *)
RowsAreOnDisk == Installed \subseteq dirs

(* A review that can still be confirmed shows the permissions the package   *)
(* would add to what is granted now: no mutation leaves an outdated review  *)
(* behind (review.rs invalidate_install_reviews, install_baseline).         *)
ReviewsAreCurrent ==
  op = Free =>
    \A r \in reviews : r.additions = Manifest[r.pkg.version] \ granted /\ r.baseline = Baseline
=============================================================================
