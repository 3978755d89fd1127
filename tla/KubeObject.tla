----------------------------- MODULE KubeObject -----------------------------
(* What the two controllers share: the life of a stored object, the outcome *)
(* of a remote call, and the rule by which a patch changes a field.         *)

\* "unowned" until Cluster API sets the OwnerRef; "deleting" once it has a
\* deletion timestamp and as long as it has our finalizer.
Phases == {"none", "unowned", "live", "deleting", "gone"}

Exists(o) == o.phase \notin {"none", "gone"}
Deleting(o) == o.phase = "deleting"

\* A call ends "ok"; or "failed", with an error and no effect; or "lost", with
\* its effect and yet an error. A request whose answer is lost has been applied
\* by the time the caller sees the error, or never is.
Happens(r) == r \in {"ok", "lost"}

\* A patch sends the fields in which the object differs from the copy that was
\* read, and so leaves the stored value of the others, whatever it has become.
Patched(stored, read, wanted) == IF wanted # read THEN wanted ELSE stored

\* A field that is a map is sent key by key.
PatchedKeys(stored, read, wanted) == (stored \ (read \ wanted)) \cup (wanted \ read)
=============================================================================
