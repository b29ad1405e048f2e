------------------------------- MODULE UserData ------------------------------
(***************************************************************************)
(* What a machine is served as user-data.  It comes from the machine's     *)
(* override, written by the editor under /admin; without one, from the     *)
(* file that its entry in the fleet names; without that, from the default  *)
(* template, which the operator can override as well.  pxe-beacon appends  *)
(* its own phone_home to it, so that the box reports that it is installed. *)
(*                                                                         *)
(* A save writes a temporary file and renames it.  The name is the same    *)
(* for every save of an override and nothing locks it, so the calls of two *)
(* saves are steps of their own here.  The default template is saved in    *)
(* the same way, to another file; its save is one step, for what becomes   *)
(* of two of them is what becomes of two saves of a machine's override.    *)
(***************************************************************************)
EXTENDS Naturals

CONSTANTS
    Saver,      \* handlers of the editor that can be in flight at once
    None,       \* no file, no handler
    Overlapped  \* two saves have overlapped

(***************************************************************************)
(* Documents, by what the program and the box tell apart.  The program     *)
(* looks for a phone_home at the beginning of a line of the text, as it is *)
(* before its template is executed; the box sees the keys of the YAML that *)
(* comes out.  "plain" is a cloud-config without a phone_home; "own" has   *)
(* one that the program finds, "hidden" one that it does not find: in      *)
(* quotes, in a mapping that is indented, or put there by a param; both    *)
(* may or may not have it once they are rendered.  "script" is rendered to *)
(* something that is no cloud-config.  Any of them may be a template that  *)
(* cannot be executed.  A file may also be "empty", or "torn": some bytes  *)
(* of a document, or of two.                                               *)
(***************************************************************************)
Document == {"plain", "own", "hidden", "script"}
Content == Document \cup {"empty", "torn"}

\* What the operator keeps beside fleet.yaml may be there and not readable.
SideFile == Document \cup {"unreadable"}

\* The boot target of the machine's entry: an installer's files have to be
\* there when the entry is checked, those of custom and menu need not.
Boot == {"installer", "other"}

\* A save has its temporary file open, or has written it.  fd: where the file
\* that it has open is by now; "gone": replaced or removed.
Save == [at : {"open", "written"}, text : Document, fd : {"tmp", "override", "gone"}]

Answer == [from : {"override", "file", "template", "error"},
           text : Content,
           phoneHomes : {"none", "one", "two", "unknown"}]

\* What a request for user-data does next, and whether the machine's entry
\* named a file when it was looked up.
Request == [at : {"override", "rest"}, named : BOOLEAN]

ASSUME NoneAssumption ==
    /\ None \notin Content \cup SideFile \cup Save \cup Answer \cup Request
    /\ Overlapped \notin Content \cup {None}

VARIABLES
    override,   \* the machine's override
    tmp,        \* its temporary file
    saver,      \* saver[s]: the save that s is about
    template,   \* the default template, overridden or not
    cloudInit,  \* the file that an operator keeps beside fleet.yaml
    named,      \* the machine's entry names that file
    reader,     \* the request for user-data
    served,     \* what it was answered, until the next one
    \* History, read by no action:
    alone,      \* the save in flight has been the only one since it began
    saved,      \* what was last saved, or None after a reset
    edited      \* cloudInit was edited since the fleet last accepted it

vars == <<override, tmp, saver, template, cloudInit, named, reader, served,
          alone, saved, edited>>
fleet == <<template, cloudInit, named, edited>>
editor == <<override, tmp, saver, alone, saved>>

TypeOK ==
    /\ override \in Content \cup {None}
    /\ tmp \in Content \cup {None}
    /\ saver \in [Saver -> Save \cup {None}]
    /\ template \in Document
    /\ cloudInit \in SideFile \cup {None}
    /\ named \in BOOLEAN
    /\ reader \in Request \cup {None}
    /\ served \in Answer \cup {None}
    /\ alone \in BOOLEAN
    /\ saved \in Document \cup {None, Overlapped}
    /\ edited \in BOOLEAN
    /\ \A s \in Saver : saver[s] # None =>
           /\ saver[s].fd = "tmp" => tmp # None
           /\ saver[s].fd = "override" => override # None

Init ==
    /\ override = None
    /\ tmp = None
    /\ saver = [s \in Saver |-> None]
    /\ template = "plain"
    /\ cloudInit \in {"plain", "script", None}
    /\ named \in {FALSE, cloudInit # None}
    /\ reader = None
    /\ served = None
    /\ alone = TRUE
    /\ saved = None
    /\ edited = FALSE

-----------------------------------------------------------------------------
(***************************************************************************)
(* POST /admin/machines/{mac}/cloud-init: the content is checked, then     *)
(* os.WriteFile opens the temporary file, cutting what is there, and       *)
(* writes it, then it is renamed.                                          *)
(***************************************************************************)
Busy == \E s \in Saver : saver[s] # None

\* Mutant of Accepted: the editor takes what it is given.
AcceptedAny(text) == text \in Document

\* The scan for a phone_home at the beginning of a line.
DefinesPhoneHome(text) == text = "own"

Accepted(text) == ~DefinesPhoneHome(text)

\* Mutant of Truncated: WriteFile without O_TRUNC.
TruncatedNot == IF tmp = None THEN "empty" ELSE tmp

\* The temporary file, opened: a file that is there keeps its inode.
Truncated == "empty"

Open(s, text) ==
    /\ saver[s] = None
    /\ Accepted(text)
    /\ saver' = [saver EXCEPT ![s] = [at |-> "open", text |-> text, fd |-> "tmp"]]
    /\ tmp' = Truncated
    /\ alone' = ~Busy
    /\ saved' = IF Busy THEN Overlapped ELSE saved
    /\ UNCHANGED <<override, fleet, reader, served>>

\* Over what another save has written, a longer document is whole, a shorter
\* one is not.
Over(old, text) == IF old = "empty" THEN {text} ELSE {text, "torn"}

\* The content of the file that is open, wherever it is by now, and a write
\* that leaves it with one of contents.
OpenFile(fd) == CASE fd = "tmp" -> tmp [] fd = "override" -> override [] fd = "gone" -> "empty"

WriteTo(fd, contents) ==
    \/ fd = "tmp" /\ tmp' \in contents /\ UNCHANGED override
    \/ fd = "override" /\ override' \in contents /\ UNCHANGED tmp
    \/ fd = "gone" /\ UNCHANGED <<override, tmp>>

Write(s) ==
    /\ saver[s] # None
    /\ saver[s].at = "open"
    /\ WriteTo(saver[s].fd, Over(OpenFile(saver[s].fd), saver[s].text))
    /\ saver' = [saver EXCEPT ![s].at = "written"]
    /\ UNCHANGED <<fleet, reader, served, alone, saved>>

\* The disk is full: the handler answers 500 and leaves what it has written.
WriteFails(s) ==
    /\ saver[s] # None
    /\ saver[s].at = "open"
    /\ WriteTo(saver[s].fd, {OpenFile(saver[s].fd), "torn"})
    /\ saver' = [saver EXCEPT ![s] = None]
    /\ UNCHANGED <<fleet, reader, served, alone, saved>>

\* Mutant of Moved: the handler writes by name, not to the file it has open.
MovedNot(fd) == fd

\* Whoever has the temporary file open has the override open after a rename,
\* and the override of before is gone.
Moved(fd) == CASE fd = "tmp" -> "override" [] OTHER -> "gone"

Rename(s) ==
    /\ saver[s] # None
    /\ saver[s].at = "written"
    /\ tmp # None
    /\ override' = tmp
    /\ tmp' = None
    /\ saver' = [t \in Saver |->
                    IF t = s \/ saver[t] = None THEN None
                    ELSE [saver[t] EXCEPT !.fd = Moved(@)]]
    /\ saved' = IF alone THEN saver[s].text ELSE Overlapped
    /\ UNCHANGED <<fleet, reader, served, alone>>

\* Another save has renamed the file: 500.
RenameFails(s) ==
    /\ saver[s] # None
    /\ saver[s].at = "written"
    /\ tmp = None
    /\ saver' = [saver EXCEPT ![s] = None]
    /\ UNCHANGED <<override, tmp, fleet, reader, served, alone, saved>>

\* POST /admin/machines/{mac}/cloud-init-reset: the override is removed.
ResetOverride ==
    /\ override' = None
    /\ saver' = [s \in Saver |->
                    IF saver[s] = None \/ saver[s].fd # "override" THEN saver[s]
                    ELSE [saver[s] EXCEPT !.fd = "gone"]]
    /\ saved' = IF alone \/ ~Busy THEN None ELSE Overlapped
    /\ UNCHANGED <<tmp, fleet, reader, served, alone>>

\* Load, Reload and the API's changes check the file that an entry names: that
\* it is there, and then its text, unless it cannot be read.
CheckFile(boot) ==
    /\ boot = "installer" => cloudInit # None
    /\ ~DefinesPhoneHome(cloudInit)

\* The program is killed and started again: files stay as they are.
Restart ==
    /\ saver' = [s \in Saver |-> None]
    /\ reader' = None
    /\ \E ok \in BOOLEAN :      \* a file that is not accepted is not loaded
           /\ ok => \E boot \in Boot : CheckFile(boot)
           /\ named' = ok
           /\ edited' = IF ok THEN FALSE ELSE edited
    /\ UNCHANGED <<override, tmp, template, cloudInit, served, alone, saved>>

-----------------------------------------------------------------------------
(***************************************************************************)
(* The other two sources.                                                  *)
(***************************************************************************)
\* POST /admin/templates/defaults-cloud-init.yaml, and its reset: any content
\* is taken.
SaveTemplate ==
    /\ template' \in Document
    /\ UNCHANGED <<editor, cloudInit, named, edited, reader, served>>

\* An operator writes or removes the file, under a fleet that has accepted it
\* or not.
EditFile ==
    /\ cloudInit' \in SideFile \cup {None}
    /\ edited' = TRUE
    /\ UNCHANGED <<editor, template, named, reader, served>>

\* POST and PUT of the API, and reloads.
NameFile ==
    /\ \E boot \in Boot : CheckFile(boot)
    /\ named' = TRUE
    /\ edited' = FALSE
    /\ UNCHANGED <<editor, template, cloudInit, reader, served>>

UnnameFile ==
    /\ named' = FALSE
    /\ UNCHANGED <<editor, template, cloudInit, edited, reader, served>>

-----------------------------------------------------------------------------
(***************************************************************************)
(* GET /autoinstall/{mac}/user-data: the machine is looked up, then its    *)
(* override is read, then whichever is next.                               *)
(***************************************************************************)
\* The phone_homes of a document once it is rendered, and the block that is
\* appended if that is a cloud-config; an empty one is not.
phoneHomes(text) ==
    CASE text = "plain" -> {"one"}
      [] text \in {"own", "hidden"} -> {"one", "two"}
      [] text \in {"script", "empty"} -> {"none"}
      [] text = "torn" -> {"unknown"}

Failure == [from |-> "error", text |-> "empty", phoneHomes |-> "none"]

\* The text is rendered and answered; if it cannot be, 500.
Serve(from, text) ==
    /\ reader' = None
    /\ \/ served' = Failure
       \/ \E n \in phoneHomes(text) :
              served' = [from |-> from, text |-> text, phoneHomes |-> n]

GetUserData ==
    /\ reader = None
    /\ reader' = [at |-> "override", named |-> named]
    /\ served' = None
    /\ UNCHANGED <<editor, fleet>>

ReadOverride ==
    /\ reader # None
    /\ reader.at = "override"
    /\ IF override # None
       THEN Serve("override", override)
       ELSE reader' = [reader EXCEPT !.at = "rest"] /\ UNCHANGED served
    /\ UNCHANGED <<editor, fleet>>

ReadRest ==
    /\ reader # None
    /\ reader.at = "rest"
    /\ \/ ~reader.named /\ Serve("template", template)
       \/ reader.named /\ cloudInit \in Document /\ Serve("file", cloudInit)
       \/ /\ reader.named
          /\ cloudInit \in {None, "unreadable"}
          /\ served' = Failure
          /\ reader' = None
    /\ UNCHANGED <<editor, fleet>>

-----------------------------------------------------------------------------
Next ==
    \/ \E s \in Saver :
           \/ \E text \in Document : Open(s, text)
           \/ Write(s) \/ WriteFails(s) \/ Rename(s) \/ RenameFails(s)
    \/ ResetOverride \/ SaveTemplate \/ EditFile \/ NameFile \/ UnnameFile
    \/ GetUserData \/ ReadOverride \/ ReadRest
    \/ Restart

Spec == Init /\ [][Next]_vars

-----------------------------------------------------------------------------
(* Properties                                                               *)

\* What is served as the override is the document that was saved last, whole:
\* a save in flight does not show before it has succeeded, one that fails or
\* is killed shows nothing, and what it leaves in the temporary file does not
\* get into a later one (admin.go:323 "then writes the override file
\* atomically").  Two saves that overlap are the exception: after them it may
\* be either document, or torn, until the next save.
SavedIsServed == saved # Overlapped => override = saved

\* A box gets two phone_homes only from a template, which nobody checks, from
\* a file that was edited after the fleet accepted it, or from a document whose
\* own one shows only once it is rendered and read as YAML: none that the check
\* finds gets past it, whatever saves, restarts and reloads come in between
\* (fleet.go:383 "Reject an operator file that defines its own").
TwoPhoneHomesExplained ==
    [][served' # served /\ served' # None /\ served'.phoneHomes = "two" =>
        \/ served'.from = "template"
        \/ served'.from = "file" /\ edited
        \/ served'.text = "hidden"]_vars

=============================================================================
