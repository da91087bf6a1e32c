---------------------------- MODULE Preferences ----------------------------
(***************************************************************************)
(* What GPA remembers and configures: its own options (src/src/options.c,  *)
(* kept in gpa.conf), the settings dialog (src/src/settingsdlg.c), the     *)
(* dialog for the options of GnuPG (src/src/confdialog.c, kept by gpgconf) *)
(* and the start of the program that reads them (src/src/gpa.c).           *)
(*                                                                         *)
(* Neither dialog is modal: both may be open, each with what it loaded     *)
(* when it was made, while the other, or the question for a keyserver,     *)
(* changes the same files.                                                 *)
(*                                                                         *)
(* The value of an option of GnuPG is a sequence of arguments and an       *)
(* argument the sequence of the words between its commas, <<"">> when it   *)
(* is the empty string and <<>> when there is none (no_arg).  A text in an *)
(* entry is the sequence of all its words.  Words that are quoted or are   *)
(* numbers are left out.                                                   *)
(***************************************************************************)
EXTENDS Naturals, Sequences, FiniteSets, SequencesExt

CONSTANTS Words,       \* the strings without a comma
          Keys,        \* the fingerprints of the secret keys
          Option,      \* the options of GnuPG by name, as gpgconf lists them
          FirstConf,   \* the settings of GnuPG that GPA may find
          Typed,       \* the texts the user types, by the name of the option
          ServersFile, \* the servers of the file "keyservers"
          BuiltIn,     \* the servers GPA knows without it
          Addresses,   \* IP addresses
          Uri,         \* the words with a colon, each with its parts
          Picks,       \* the rows of the methods' table that the user picks
          MaxEdits,    \* bound: changes of a widget and answers that save
          MaxFailures, \* bound: failures of gpgconf, of gpg and of files
          MaxStarts    \* bound: starts of the program

Options == DOMAIN Option
Text == Seq(Words)
Value == Seq(Text)
NoKey == "no key"
NoServer == "no server"
NoValue == <<>>
NoText == <<>>
EmptyWord == ""
akl == "auto-key-locate"
Methods == {"nodefault", "local", "cert", "pka", "ldap", "keyserver"}

\* The type of an option's widget follows from its flags (create_dialog_tabs_2);
\* the two options of gpg that GPA stores itself are plain strings.
ASSUME OptionAssumption ==
  /\ \A o \in Options :
       Option[o] \in [type : {"SIMPLE", "SPIN", "ENTRY", "OPT_ENTRY"}, level : Nat, component : STRING,
                     list : BOOLEAN, optional : BOOLEAN, default : Value]
  /\ \A o \in Options :
       CASE Option[o].type = "SIMPLE" -> ~Option[o].list
         [] Option[o].type = "SPIN" -> Option[o].list
         [] OTHER -> (Option[o].type = "OPT_ENTRY") = (Option[o].optional /\ ~Option[o].list)
  /\ \A o \in {akl, "keyserver"} : o \in Options /\ Option[o].type = "ENTRY" /\ ~Option[o].list
ASSUME BoundsAssumption == {MaxEdits, MaxFailures, MaxStarts} \subseteq Nat
ASSUME WordsAssumption == {EmptyWord, "1", "2", "nodefault", "local", "keyserver", NoServer} \subseteq Words
ASSUME KeysAssumption == IsFiniteSet(Keys) /\ NoKey \notin Keys
ASSUME InputsAssumption ==
  /\ BuiltIn \in Text \ {<<>>}
  /\ Picks \subseteq Nat
  /\ FirstConf \subseteq [Options -> Value]
  /\ \A o \in Options : Typed[o] \subseteq Text \ {NoText}
ASSUME UriAssumption ==
  /\ DOMAIN Uri \subseteq Words \ {EmptyWord}
  /\ \A w \in DOMAIN Uri : DOMAIN Uri[w] = {"scheme", "slashes", "auth", "host", "port", "path"}
  /\ \A w \in DOMAIN Uri : Uri[w].slashes \in 0..3

VARIABLES
  running,   \* is the program running?
  gpg21,     \* is_gpg_version_at_least ("2.1.0")
  keyring,   \* the secret keys, in the order gpg lists them
  gpg_conf,  \* what gpgconf has for every option
  gpa_conf,  \* the file gpa.conf
  options,   \* the instance of GpaOptions
  settings,  \* the settings dialog
  backend,   \* the dialog for the options of GnuPG
  touched,   \* history: the options the user edited since their widgets were made
  picked,    \* history: the method to locate keys was chosen by the user
  wanted,    \* history: what the user last set, and whether all of it was written
  edits, failures, starts

files == <<keyring, gpg_conf, gpa_conf>>
bounds == <<edits, failures, starts>>
vars == <<running, gpg21, files, options, settings, backend, touched, picked, wanted, bounds>>

Flags == {"backup-generated", "advanced-ui", "show-advanced-options", "detailed-view"}

-----------------------------------------------------------------------------
(* The list of keyservers *)

\* read_list drops the list it made of the file, so that there is none yet and
\* keyserver_read_list takes the built-in one.
read_list(file) == <<>>
keyserver_read_list(file) == IF read_list(file) = <<>> THEN BuiltIn ELSE read_list(file)
Servers == keyserver_read_list(ServersFile)

-----------------------------------------------------------------------------
(* The list of methods to locate a key *)

\* gpa's letters for the methods.  The last row, "Custom", has no list.
akl_table == << <<"l">>, <<"l", "k">>, <<"l", "p">>, <<"l", "p", "k">>, <<"l", "k", "p">>,
                <<"l", "D">>, <<"l", "D", "k">>, <<"n", "p">>, <<"n", "D">> >>
Custom == Len(akl_table) + 1
MethodRows == 1..Custom

\* The parts of a word <scheme>:<slashes><auth>@<host>:<port><path>.  Without
\* a slash the rest is opaque, one slash is not supported, two start a host,
\* three a path on the host that is the default.  NoSpec is NULL.
KeyserverSpec(scheme, auth, host, port, path) ==
  [scheme |-> scheme, auth |-> auth, host |-> host, port |-> port, path |-> path]
NoSpec == KeyserverSpec("", "", "", "", "")
ParsedUri(u) ==
  CASE u.slashes = 0 -> KeyserverSpec(u.scheme, "", "", "", "")
    [] u.slashes = 2 /\ u.host # "" -> KeyserverSpec(u.scheme, u.auth, u.host, u.port, IF u.path = "" THEN "/" ELSE u.path)
    [] u.slashes = 3 -> KeyserverSpec(u.scheme, "", "", "", u.path)
    [] OTHER -> NoSpec
\* A word without a scheme is a host for HKP, unless a scheme is required.
parse_keyserver_uri(word, require_scheme) ==
  IF word \in DOMAIN Uri
  THEN IF Uri[word].scheme = "" THEN NoSpec ELSE ParsedUri(Uri[word])
  ELSE IF require_scheme \/ word = "" THEN NoSpec ELSE KeyserverSpec("hkp", "", word, "", "/")

\* The word that stands for kDNS with the server at an address.
kdnscert == "/?at=_kdnscert&usevc=1"
IsKdns(word) ==
  LET spec == parse_keyserver_uri(word, TRUE)
  IN spec # NoSpec /\ spec = KeyserverSpec("kdns", "", spec.host, "", kdnscert) /\ spec.host # ""
KdnsWord(addr) == CHOOSE w \in DOMAIN Uri : IsKdns(w) /\ Uri[w].host = addr
ASSUME KdnsAssumption == \A a \in Addresses : \E w \in DOMAIN Uri : IsKdns(w) /\ Uri[w].host = a

Letter(word) ==
  CASE word = "nodefault" -> "n" [] word = "local" -> "l" [] word = "cert" -> "c"
    [] word = "pka" -> "p" [] word = "ldap" -> "L" [] word = "keyserver" -> "k"
    [] OTHER -> IF IsKdns(word) THEN "D" ELSE "?"

\* The words without what is empty or comes twice; an unknown word voids the list.
gpg_parse_auto_key_locate(words) ==
  LET full == SelectSeq(words, LAMBDA w : w # "")
      first == {i \in DOMAIN full : \A j \in 1..(i - 1) : full[j] # full[i]}
  IN IF \A i \in DOMAIN full : full[i] \in Methods \/ parse_keyserver_uri(full[i], TRUE) # NoSpec
     THEN [i \in 1..Cardinality(first) |-> full[SetToSortSeq(first, <)[i]]]
     ELSE <<>>

Letters(words) ==
  LET list == gpg_parse_auto_key_locate(words) IN [i \in DOMAIN list |-> Letter(list[i])]

Named(words) == \E i \in DOMAIN akl_table : akl_table[i] = Letters(words)

\* A list without a row counts as the first row.
MatchFirst(words) ==
  IF Named(words) THEN CHOOSE i \in DOMAIN akl_table : akl_table[i] = Letters(words) ELSE 1

\* The row of a list; the last one when none matches.
Row(words) ==
  IF Named(words) THEN CHOOSE i \in DOMAIN akl_table : akl_table[i] = Letters(words) ELSE Custom

require_addr(method) == method # Custom /\ Contains(akl_table[method], "D")

\* parse_akl: the row selected for what is configured, and the text in the
\* entry of the kDNS server, which keeps its text unless there is a new one.
parse_akl(words, addr) ==
  IF words = NoText THEN [method |-> 1, addr |-> ""]
  ELSE LET kdns == SelectSeq(gpg_parse_auto_key_locate(words), IsKdns)
       IN [method |-> Row(words), addr |-> IF kdns = <<>> THEN addr ELSE Uri[Last(kdns)].host]

\* save_settings: the words it stores for a row.  There is no case for 'p'.
StoredWord(letter, addr) ==
  CASE letter = "n" -> "nodefault" [] letter = "l" -> "local"
    [] letter = "k" -> "keyserver" [] letter = "D" -> KdnsWord(addr)
newakl(method, addr) ==
  LET methods == akl_table[method]
  IN FlattenSeq([i \in DOMAIN methods |->
                   IF methods[i] = "p" THEN <<>> ELSE <<StoredWord(methods[i], addr)>>])

-----------------------------------------------------------------------------
(* The widgets of the options of GnuPG *)

toggle(o) == Option[o].type \in {"SIMPLE", "SPIN"}

\* Arguments and their words are joined by the same comma.
arg_to_str(value) ==
  FlattenSeq([i \in DOMAIN value |-> IF value[i] = NoText THEN <<EmptyWord>> ELSE value[i]])

\* Every word of an entry is an argument of its own; a comma at the end ends
\* the last one.
Fields(text) == IF Len(text) > 1 /\ Last(text) = EmptyWord THEN Front(text) ELSE text
ArgsOf(o, text) ==
  LET fields == Fields(text)
  IN [i \in DOMAIN fields |-> IF fields[i] = EmptyWord /\ Option[o].optional THEN NoText ELSE <<fields[i]>>]

option_widget_to_arg(o, w) ==
  CASE w.combo \in {"off", "default"} -> NoValue
    [] w.combo = "on" -> <<w.text>>
    [] w.combo = "no arg" -> << <<>> >>
    [] w.combo = "custom" -> ArgsOf(o, w.text)

\* What the entry shows for a choice of its combo box: a text of the user's,
\* the loaded value or the default, in this order.
EntryText(o, combo, saved, value) ==
  IF combo # "custom" THEN NoText
  ELSE IF saved # NoText THEN saved
  ELSE IF value # NoValue THEN arg_to_str(value)
  ELSE IF Option[o].default # NoValue THEN arg_to_str(Option[o].default)
  ELSE <<EmptyWord>>

Entry(o, combo, saved, value) ==
  [combo |-> combo, saved |-> saved, text |-> EntryText(o, combo, saved, value)]

\* What a spin button counts to begin with, of 1 to 100.
FirstCount == <<"1">>

\* update_option of a new widget, or of one that is reset.
InitialCombo(value) ==
  CASE value = NoValue -> "default"
    [] value = << <<>> >> -> "no arg"
    [] OTHER -> "custom"

CheckState(value) == IF value = NoValue THEN "off" ELSE "on"

\* The count of the spin button is not loaded.
CountNotLoaded(o, value) ==
  IF toggle(o) THEN [combo |-> CheckState(value), text |-> FirstCount, saved |-> NoText]
  ELSE Entry(o, InitialCombo(value), NoText, value)

option_widget(o, value) ==
  IF toggle(o)
  THEN [combo |-> CheckState(value), text |-> IF value = NoValue THEN FirstCount ELSE value[1], saved |-> NoText]
  ELSE Entry(o, InitialCombo(value), NoText, value)

\* update_option after a choice of the user's: a text is saved when the user
\* leaves "custom".
update_option(o, w, combo, value) ==
  Entry(o, combo, IF w.combo = "custom" THEN w.text ELSE w.saved, value)

\* reset_options: neither the count of a spin button nor a saved text is reset.
reset_option(o, w, value) ==
  IF toggle(o) THEN [w EXCEPT !.combo = CheckState(value)]
  ELSE Entry(o, InitialCombo(value), w.saved, value)

\* create_dialog_tabs_2 makes widgets for the options up to the chosen level.
Visible(level) == {o \in Options : Option[o].level <= level}
Tabs(level, conf) == [o \in Visible(level) |-> option_widget(o, conf[o])]

-----------------------------------------------------------------------------
(* gpa.conf and the instance of GpaOptions *)

\* What gpa_options_save_settings writes: the key in memory, if there is one,
\* and the flags that are not at their default.
Written(opts) == [flags |-> opts.flags, key |-> opts.default_key]

NoOptions == [flags |-> {}, default_key |-> NoKey, fpr |-> NoKey, keyserver |-> NoServer]
ClosedSettings == [open |-> FALSE, modified |-> FALSE, key |-> NoKey, method |-> 1, addr |-> "",
                   url |-> NoServer, words |-> NoText]
ClosedBackend == [open |-> FALSE, modified |-> FALSE, level |-> 0, loaded |-> <<>>, widgets |-> <<>>]

Init ==
  /\ running = FALSE
  /\ gpg21 \in BOOLEAN
  /\ keyring = SetToSeq(Keys)
  /\ gpg_conf \in FirstConf
  /\ gpa_conf \in [flags : {{}, {"advanced-ui", "detailed-view"}}, key : Keys \cup {NoKey}]
  /\ options = NoOptions
  /\ settings = ClosedSettings
  /\ backend = ClosedBackend
  /\ touched = {}
  /\ picked = FALSE
  /\ wanted = [flags |-> gpa_conf.flags, key |-> gpa_conf.key, written |-> TRUE]
  /\ edits = 0
  /\ failures = 0
  /\ starts = 0

\* One more failure, if there may be one.
Fails(condition) ==
  /\ condition => failures < MaxFailures
  /\ failures' = failures + (IF condition THEN 1 ELSE 0)

Edit == running /\ edits < MaxEdits /\ edits' = edits + 1

\* The program ends, with exit (EXIT_FAILURE) in gpa_gpgme_error or because
\* its windows are closed.  The file is kept.
Ended ==
  /\ running' = FALSE
  /\ options' = NoOptions
  /\ settings' = ClosedSettings
  /\ backend' = ClosedBackend
  /\ touched' = {}
  /\ picked' = FALSE

\* The first argument only; NULL, NoText here, when there is none and also when
\* gpgconf fails, which the user is warned of and the callers cannot tell.
gpa_load_gpgconf_string(conf, name, failed) ==
  IF failed \/ conf[name] = NoValue THEN NoText ELSE conf[name][1]
gpa_load_configured_keyserver(failed) ==
  LET text == gpa_load_gpgconf_string(gpg_conf, "keyserver", failed)
  IN IF text = NoText THEN NoServer ELSE text[1]

\* gpa_store_gpgconf_string, when gpgconf takes it.
Stored(conf, name, text) == [conf EXCEPT ![name] = <<text>>]

\* An older gpg is told the keyserver with every save of the options.
KeyserverStored(conf, opts) ==
  IF opts.keyserver # NoServer /\ ~gpg21 THEN Stored(conf, "keyserver", <<opts.keyserver>>) ELSE conf

\* A setter emits its signal, whose class handler is gpa_options_save_settings.
\* All settings are written at once.  When gpa.conf cannot be opened that is
\* only logged and the file keeps what it had ("broken").
gpa_options_save_settings(opts, broken) ==
  /\ options' = opts
  /\ gpa_conf' = IF broken THEN gpa_conf ELSE Written(opts)

\* History: what is in memory now is what the user wants.
NowWanted(opts, broken) == wanted' = [flags |-> opts.flags, key |-> opts.default_key, written |-> ~broken]

gpa_options_set_default_key(opts, key) ==
  [opts EXCEPT !.default_key = key, !.fpr = IF key = NoKey THEN @ ELSE key]
gpa_options_set_default_keyserver(opts, url) ==
  IF gpg21 THEN opts ELSE [opts EXCEPT !.keyserver = url]

-----------------------------------------------------------------------------
(* The start and the end of the program *)

\* The reader does not know all words that the writer uses.
ForgetsTheView(failed) ==
  [flags |-> gpa_conf.flags \ {"detailed-view"}, default_key |-> NoKey, fpr |-> gpa_conf.key,
   keyserver |-> IF gpg21 THEN NoServer ELSE gpa_load_configured_keyserver(failed)]

gpa_options_read_settings(failed) ==
  [flags |-> gpa_conf.flags, default_key |-> NoKey, fpr |-> gpa_conf.key,
   keyserver |-> IF gpg21 THEN NoServer ELSE gpa_load_configured_keyserver(failed)]

\* The first secret key is what gpg would use.
determine_default_key == IF keyring = <<>> THEN NoKey ELSE Head(keyring)

\* The key named in gpa.conf is adopted, or it is gone and a new one is chosen.
MustDetermine(opts) == opts.fpr = NoKey \/ ~Contains(keyring, opts.fpr)

\* An older gpg without a keyserver gets the first of the list, and so does one
\* whose keyserver could not be read.
NeedsServer(opts) == ~gpg21 /\ opts.keyserver = NoServer

StartWith(opts) ==
  IF NeedsServer(opts) THEN gpa_options_set_default_keyserver(opts, Head(Servers)) ELSE opts

\* History: the user expects the key chosen last, as long as there is one.
WantedKey == IF Contains(keyring, wanted.key) THEN wanted.key ELSE determine_default_key

\* main: gpa.conf is read, the default key and the keyserver are updated.
main(broken, failed) ==
  LET read == gpa_options_read_settings(failed)
      keyed == IF MustDetermine(read) THEN gpa_options_set_default_key(read, determine_default_key)
               ELSE [read EXCEPT !.default_key = read.fpr]
      opts == StartWith(keyed)
      saved == MustDetermine(read) \/ NeedsServer(keyed)
  IN /\ Fails(broken \/ failed)
     /\ failed => ~gpg21
     /\ broken => saved
     /\ running' = TRUE
     /\ IF saved
        THEN gpa_options_save_settings(opts, broken) /\ gpg_conf' = KeyserverStored(gpg_conf, opts)
        ELSE options' = opts /\ UNCHANGED <<gpa_conf, gpg_conf>>
     /\ wanted' = IF wanted.written
                  THEN [flags |-> wanted.flags, key |-> WantedKey, written |-> ~broken]
                  ELSE [flags |-> opts.flags, key |-> opts.default_key, written |-> ~broken]
     /\ UNCHANGED <<settings, backend, touched, picked>>

\* gpg has another error than "no such key": the fingerprint stays, but there
\* is no default key.  The user's choice is lost with the next save.
KeyLookupFails(failed) ==
  LET read == gpa_options_read_settings(failed)
      opts == StartWith(read)
  IN /\ read.fpr # NoKey
     /\ Fails(TRUE)
     /\ failed => ~gpg21
     /\ running' = TRUE
     /\ options' = opts
     /\ IF NeedsServer(read)
        THEN gpa_conf' = Written(opts) /\ gpg_conf' = KeyserverStored(gpg_conf, opts)
        ELSE UNCHANGED <<gpa_conf, gpg_conf>>
     /\ wanted' = [wanted EXCEPT !.written = FALSE]
     /\ UNCHANGED <<settings, backend, touched, picked>>

\* gpg fails to list the secret keys, or gpgconf to take the keyserver.
StartFails ==
  /\ \E failed \in BOOLEAN :
       LET read == gpa_options_read_settings(failed)
       IN MustDetermine(read) \/ NeedsServer(read)
  /\ Fails(TRUE)
  /\ UNCHANGED <<running, gpa_conf, gpg_conf, options, settings, backend, touched, picked, wanted>>

Start ==
  /\ ~running
  /\ starts < MaxStarts
  /\ starts' = starts + 1
  /\ \/ \E broken, failed \in BOOLEAN : main(broken, failed)
     \/ \E failed \in BOOLEAN : KeyLookupFails(failed)
     \/ StartFails
  /\ UNCHANGED <<gpg21, keyring, edits>>

Quit ==
  /\ running
  /\ Ended
  /\ UNCHANGED <<gpg21, files, wanted, bounds>>

\* A key is deleted, with GPA or without it; nobody tells the options.
KeyDeleted ==
  /\ running
  /\ \E i \in DOMAIN keyring : keyring' = RemoveAt(keyring, i)
  /\ UNCHANGED <<running, gpg21, gpg_conf, gpa_conf, options, settings, backend, touched, picked,
                 wanted, bounds>>

-----------------------------------------------------------------------------
(* The settings dialog *)

\* load_settings: the key is not selected in the list, and the keyserver is
\* written to an entry that the combo box does not have.  A list that could not be
\* loaded counts as none.  words is for the properties: what parse_akl was given.
load_settings(dlg, conf, failed) ==
  LET words == IF gpg21 THEN gpa_load_gpgconf_string(conf, akl, failed) ELSE NoText
      parsed == IF gpg21 THEN parse_akl(words, dlg.addr) ELSE [method |-> 1, addr |-> ""]
  IN [dlg EXCEPT !.open = TRUE, !.modified = FALSE, !.method = parsed.method,
                 !.addr = parsed.addr, !.words = words]

settings_dlg_constructor(failed) == load_settings(ClosedSettings, gpg_conf, failed)

settings_dlg_new ==
  /\ running /\ ~settings.open
  /\ \E failed \in BOOLEAN :
       /\ Fails(failed)
       /\ failed => gpg21
       /\ settings' = settings_dlg_constructor(failed)
  /\ picked' = FALSE
  /\ UNCHANGED <<running, gpg21, files, options, backend, touched, wanted, edits, starts>>

\* The two check buttons set their option at once.
advanced_mode_toggled ==
  /\ settings.open
  /\ Edit
  /\ \E flag \in {"advanced-ui", "show-advanced-options"}, broken \in BOOLEAN :
       LET opts == [options EXCEPT !.flags = SymDiff(@, {flag})]
       IN /\ Fails(broken)
          /\ gpa_options_save_settings(opts, broken)
          /\ NowWanted(opts, broken)
          /\ gpg_conf' = KeyserverStored(gpg_conf, opts)
  /\ UNCHANGED <<running, gpg21, keyring, settings, backend, touched, picked, starts>>

\* The other widgets only change the dialog.
Change(dlg) ==
  /\ settings.open
  /\ Edit
  /\ settings' = [dlg EXCEPT !.modified = TRUE]
  /\ UNCHANGED <<running, gpg21, files, options, backend, touched, wanted, failures, starts>>

key_selected_cb ==
  /\ \E k \in ToSet(keyring) \cup {NoKey} : k # settings.key /\ Change([settings EXCEPT !.key = k])
  /\ UNCHANGED picked
keyserver_selected_from_list_cb ==
  /\ ~gpg21
  /\ \E url \in ToSet(Servers) : url # settings.url /\ Change([settings EXCEPT !.url = url])
  /\ UNCHANGED picked
akl_method_changed_cb ==
  /\ gpg21
  /\ \E m \in (MethodRows \cap Picks) \ {settings.method} : Change([settings EXCEPT !.method = m])
  /\ picked' = TRUE
\* Only an address makes the dialog modified.
akl_addr_changed_cb ==
  /\ gpg21 /\ require_addr(settings.method)
  /\ \E a \in Addresses : a # settings.addr /\ Change([settings EXCEPT !.addr = a])
  /\ picked' = TRUE

\* Without a key the user is asked, and may continue; a keyserver, which only
\* an older gpg has, must be of a known kind and a kDNS server must have an
\* address.  Otherwise the dialog stays open as it is.
check_default_keyserver ==
  (~gpg21 /\ settings.url # NoServer) =>
     LET kspec == parse_keyserver_uri(settings.url, FALSE)
     IN /\ kspec # NoSpec
        /\ kspec.host # ""
        /\ kspec.scheme \in {"hkp", "http", "ldap", "finger", "mailto"}
check_akl == (gpg21 /\ require_addr(settings.method)) => settings.addr \in Addresses

\* What save_settings stores as the methods to locate a key.
StoredMethods(conf) ==
  IF gpg21 /\ settings.method # Custom
  THEN Stored(conf, akl, newakl(settings.method, settings.addr)) ELSE conf

\* save_settings: the options first, then GnuPG; "done" is what follows, and
\* "failed" whether gpgconf fails in that.
save_settings(broken, failed, done) ==
  LET opts == gpa_options_set_default_keyserver(
                gpa_options_set_default_key(options, settings.key), settings.url)
  IN /\ settings.modified
     /\ check_default_keyserver /\ check_akl
     /\ Fails(broken \/ failed)
     /\ gpa_options_save_settings(opts, broken)
     /\ NowWanted(opts, broken)
     /\ gpg_conf' = StoredMethods(KeyserverStored(gpg_conf, opts))
     /\ settings' = done

\* A failure of gpgconf ends the program; the options are saved before it.
StoreFails ==
  LET opts == gpa_options_set_default_keyserver(
                gpa_options_set_default_key(options, settings.key), settings.url)
  IN /\ settings.open /\ settings.modified
     /\ check_default_keyserver /\ check_akl
     /\ Edit
     /\ Fails(TRUE)
     /\ StoredMethods(KeyserverStored(gpg_conf, opts)) # gpg_conf
     /\ gpa_conf' = Written(opts)
     /\ wanted' = [flags |-> opts.flags, key |-> opts.default_key, written |-> TRUE]
     /\ Ended
     /\ UNCHANGED <<gpg21, keyring, gpg_conf, starts>>

Response ==
  /\ settings.open
  /\ Edit
  /\ UNCHANGED <<running, gpg21, keyring, backend, touched, starts>>

dialog_response_ok ==
  /\ Response
  /\ \/ \E broken \in BOOLEAN : save_settings(broken, FALSE, ClosedSettings)
     \/ ~settings.modified /\ settings' = ClosedSettings
        /\ UNCHANGED <<gpg_conf, gpa_conf, options, wanted, failures>>
  /\ picked' = FALSE

\* Apply loads again what it saved.
dialog_response_apply_settings ==
  /\ Response
  /\ \E broken, failed \in BOOLEAN :
       /\ failed => gpg21
       /\ save_settings(broken, failed, load_settings(settings, gpg_conf', failed))
  /\ picked' = FALSE

dialog_response_cancel ==
  /\ settings.open
  /\ settings' = ClosedSettings
  /\ picked' = FALSE
  /\ UNCHANGED <<running, gpg21, files, options, backend, touched, wanted, bounds>>

-----------------------------------------------------------------------------
(* The dialog for the options of GnuPG *)

Components == {Option[o].component : o \in Options}

\* create_dialog_tabs: new widgets for what gpgconf has now.  When it fails,
\* the old ones stay and the dialog keeps its state.
create_dialog_tabs(dlg, conf, failed) ==
  /\ backend' = IF failed THEN dlg
                ELSE [dlg EXCEPT !.modified = FALSE, !.loaded = conf, !.widgets = Tabs(dlg.level, conf)]
  /\ touched' = IF failed THEN touched ELSE {}

\* create_dialog
create_dialog ==
  /\ running /\ ~backend.open
  /\ \E failed \in BOOLEAN :
       /\ Fails(failed)
       /\ create_dialog_tabs([ClosedBackend EXCEPT !.open = TRUE,
                                !.level = IF "advanced-ui" \in options.flags THEN 1 ELSE 0],
                             gpg_conf, failed)
  /\ UNCHANGED <<running, gpg21, files, options, settings, picked, wanted, edits, starts>>

\* save_options: every option whose widget differs from what was loaded.
Changed(component) ==
  {o \in DOMAIN backend.widgets :
     /\ Option[o].component = component
     /\ option_widget_to_arg(o, backend.widgets[o]) # backend.loaded[o]}

\* gpgconf refuses all changes of a component when an option that is not a
\* list gets more than one argument.
GpgconfRefuses(component) ==
  \E o \in Changed(component) :
    ~Option[o].list /\ Len(option_widget_to_arg(o, backend.widgets[o])) > 1

\* save_all_options, but for the components whose save fails with a warning.
save_all_options(failing) ==
  LET saved == UNION {Changed(c) : c \in {d \in Components \ failing : ~GpgconfRefuses(d)}}
  IN [o \in Options |-> IF o \in saved THEN option_widget_to_arg(o, backend.widgets[o]) ELSE gpg_conf[o]]

\* A change of a widget; "changed" handlers only set the flag.
Touch(o, w) ==
  /\ backend' = [backend EXCEPT !.modified = TRUE, !.widgets = [@ EXCEPT ![o] = w]]
  /\ touched' = touched \cup {o}

option_checkbutton_toggled(o) ==
  /\ toggle(o)
  /\ Touch(o, [backend.widgets[o] EXCEPT !.combo = IF @ = "on" THEN "off" ELSE "on"])
SpinChanged(o) ==
  /\ Option[o].type = "SPIN" /\ backend.widgets[o].combo = "on"
  /\ Touch(o, [backend.widgets[o] EXCEPT !.text = IF @ = FirstCount THEN <<"2">> ELSE FirstCount])
option_combobox_changed(o) ==
  /\ ~toggle(o)
  /\ \E combo \in {"default", "custom"} \cup (IF Option[o].type = "OPT_ENTRY" THEN {"no arg"} ELSE {}) :
       /\ combo # backend.widgets[o].combo
       /\ Touch(o, update_option(o, backend.widgets[o], combo, backend.loaded[o]))
EntryEdited(o) ==
  /\ ~toggle(o) /\ backend.widgets[o].combo = "custom"
  /\ \E text \in Typed[o] : text # backend.widgets[o].text /\ Touch(o, [backend.widgets[o] EXCEPT !.text = text])

EditOption ==
  /\ backend.open
  /\ Edit
  /\ \E o \in DOMAIN backend.widgets :
       \/ option_checkbutton_toggled(o)
       \/ SpinChanged(o)
       \/ option_combobox_changed(o)
       \/ EntryEdited(o)
  /\ UNCHANGED <<running, gpg21, files, options, settings, picked, wanted, failures, starts>>

BackendResponse ==
  /\ backend.open
  /\ Edit
  /\ UNCHANGED <<running, gpg21, keyring, gpa_conf, options, settings, picked, wanted, starts>>

\* hide_backend_config
hide_backend_config == backend' = ClosedBackend /\ touched' = {}

dialog_response_accept ==
  /\ BackendResponse
  /\ \E failing \in SUBSET Components : Fails(failing # {}) /\ gpg_conf' = save_all_options(failing)
  /\ hide_backend_config

dialog_response_close ==
  /\ backend.open
  /\ hide_backend_config
  /\ UNCHANGED <<running, gpg21, files, options, settings, picked, wanted, bounds>>

\* "Apply" and "Reset" wait for a change, except in a dialog that never had tabs.
dialog_response_apply ==
  /\ BackendResponse
  /\ backend.modified \/ backend.loaded = <<>>
  /\ \E failing \in SUBSET Components, failed \in BOOLEAN :
       /\ Fails(failing # {} \/ failed)
       /\ gpg_conf' = save_all_options(failing)
       /\ create_dialog_tabs(backend, gpg_conf', failed)

dialog_response_reset ==
  /\ BackendResponse
  /\ backend.modified
  /\ backend' = [backend EXCEPT !.modified = FALSE,
                   !.widgets = [o \in DOMAIN @ |-> reset_option(o, @[o], backend.loaded[o])]]
  /\ UNCHANGED <<gpg_conf, touched, failures>>

\* The user is asked first when there are changes; the answer "Cancel" leaves
\* everything as it is.  A level without options of its own shows the same tabs.
dialog_level_chooser_cb ==
  /\ BackendResponse
  /\ \E level \in {Option[o].level : o \in Options} \ {backend.level}, failing \in SUBSET Components, failed \in BOOLEAN :
       /\ Fails(failing # {} \/ failed)
       /\ gpg_conf' = save_all_options(failing)
       /\ create_dialog_tabs([backend EXCEPT !.level = level], gpg_conf', failed)

\* gpa_configure_keyserver, asked by confirm_send (gpaexportserverop.c) when no
\* keyserver is known, or could be read: the answer "Yes" configures one behind the
\* dialogs.
gpa_configure_keyserver ==
  /\ running
  /\ Edit
  /\ \E failed \in BOOLEAN :
       /\ Fails(failed)
       /\ failed => gpg21
       /\ NoServer = IF gpg21 THEN gpa_load_configured_keyserver(failed) ELSE options.keyserver
  /\ gpg_conf' = Stored(gpg_conf, "keyserver", <<Head(Servers)>>)
  /\ UNCHANGED <<running, gpg21, keyring, gpa_conf, options, settings, backend, touched, picked, wanted,
                 starts>>

\* gpa_backup_operation remembers that a backup was made.
gpa_options_set_backup_generated ==
  /\ running
  /\ Edit
  /\ \E broken \in BOOLEAN :
       LET opts == [options EXCEPT !.flags = @ \cup {"backup-generated"}]
       IN /\ Fails(broken)
          /\ gpa_options_save_settings(opts, broken)
          /\ NowWanted(opts, broken)
          /\ gpg_conf' = KeyserverStored(gpg_conf, opts)
  /\ UNCHANGED <<running, gpg21, keyring, settings, backend, touched, picked, starts>>

-----------------------------------------------------------------------------
SettingsResponse == dialog_response_ok \/ dialog_response_apply_settings \/ dialog_response_cancel
BackendSave == dialog_response_accept \/ dialog_response_apply \/ dialog_level_chooser_cb

SettingsEdit ==
  \/ settings_dlg_new
  \/ advanced_mode_toggled
  \/ key_selected_cb
  \/ keyserver_selected_from_list_cb
  \/ akl_method_changed_cb
  \/ akl_addr_changed_cb
BackendEdit == create_dialog \/ EditOption \/ dialog_response_close \/ dialog_response_reset

Next ==
  \/ Start
  \/ Quit
  \/ KeyDeleted
  \/ SettingsEdit
  \/ SettingsResponse
  \/ StoreFails
  \/ BackendEdit
  \/ BackendSave
  \/ gpa_configure_keyserver
  \/ gpa_options_set_backup_generated

Spec == Init /\ [][Next]_vars

-----------------------------------------------------------------------------
\* Every value has its type, a closed dialog holds nothing, and a widget has
\* the choices of its type: a check button has no combo box.
SomeKey == Keys \cup {NoKey}
Widget == [combo : {"on", "off", "default", "custom", "no arg"}, text : Text, saved : Text]
TypeOK ==
  /\ {running, gpg21, picked} \subseteq BOOLEAN
  /\ keyring \in Seq(Keys)
  /\ gpg_conf \in [Options -> Value]
  /\ gpa_conf \in [flags : SUBSET Flags, key : SomeKey]
  /\ options \in [flags : SUBSET Flags, default_key : SomeKey, fpr : SomeKey, keyserver : Words]
  /\ settings \in [open : BOOLEAN, modified : BOOLEAN, key : SomeKey, method : MethodRows,
                   addr : {settings.addr}, url : Words, words : Text]
  /\ settings.open \/ settings = ClosedSettings
  /\ backend \in [open : BOOLEAN, modified : BOOLEAN, level : Nat,
                  loaded : {<<>>} \cup [Options -> Value], widgets : {backend.widgets}]
  /\ DOMAIN backend.widgets \subseteq Options
  /\ backend.widgets \in [DOMAIN backend.widgets -> Widget]
  /\ backend.open \/ backend = ClosedBackend
  /\ DOMAIN backend.widgets # {} => backend.loaded # <<>>
  /\ touched \subseteq DOMAIN backend.widgets
  /\ \A o \in DOMAIN backend.widgets :
       LET w == backend.widgets[o]
       IN IF toggle(o) THEN w.combo \in {"on", "off"} /\ w.saved = NoText
          ELSE w.combo \in {"default", "custom", "no arg"} /\ (w.text = NoText <=> w.combo # "custom")
  /\ wanted \in [flags : SUBSET Flags, key : SomeKey, written : BOOLEAN]

\* What the user set last is in force, in this run of the program and in the
\* next ones, as long as gpa.conf could be written and gpg could be asked: the
\* flags, and the default key while it exists.  TypeOK is a part of it.
SettingsSurviveARestart ==
  /\ TypeOK
  /\ running /\ wanted.written => options.flags = wanted.flags /\ options.default_key = wanted.key

\* A value that its widget does not distort, nor make gpgconf refuse, although
\* an entry shows neither where an argument ends nor an empty word at the end.
Plain(o, value) ==
  CASE toggle(o) -> Len(value) <= 1
    [] ~toggle(o) /\ Option[o].list -> \A i \in DOMAIN value : Len(value[i]) = 1 /\ value[i][1] # EmptyWord
    [] OTHER -> /\ Len(value) <= 1
                /\ \A i \in DOMAIN value :
                     value[i] # NoText =>
                       Fields(value[i]) = value[i] /\ (value[i] = <<EmptyWord>> => ~Option[o].optional)

\* GPA finds only such values of an option, and the user types no list with two
\* commas at its end.
PlainInputs(o) ==
  /\ Plain(o, Option[o].default)
  /\ \A conf \in FirstConf : Plain(o, conf[o])
  /\ Option[o].list => \A text \in Typed[o] : Fields(Fields(text)) = Fields(text)

\* The dialog for the options of GnuPG changes an option that the user did not
\* edit in it only where the value that it loaded is not plain and not all inputs
\* of the option are, whatever else changed the configuration since it was loaded
\* and whatever the dialogs made of the inputs.
UntouchedOptionsAreKept ==
  [][gpg_conf' # gpg_conf /\ BackendSave =>
       \A o \in Options \ touched :
         gpg_conf'[o] # gpg_conf[o] =>
           ~PlainInputs(o) /\ o \in DOMAIN backend.widgets /\ ~Plain(o, backend.loaded[o])]_vars

\* A list of methods that is there and has no row.
Unnamed(words) == words # NoText /\ ~Named(words)

\* Without a choice of the user the settings dialog stores no methods but the row
\* of the list it loaded, and none at all if that list has no row ("Custom"): it
\* keeps a list it has no name for, the one it loaded as well as one that the
\* other dialog has put in its place since.  That is what the code guarantees, and
\* no more: OK of a dialog that loaded a list with a row, or none, or could not
\* load it (which it takes for none, "Local"), replaces whatever is there by then.
CustomLocateIsKept ==
  [][gpg_conf'[akl] # gpg_conf[akl] /\ SettingsResponse /\ ~picked =>
       /\ ~Unnamed(settings.words)
       /\ LET shown == parse_akl(settings.words, settings.addr)
          IN gpg_conf'[akl] = << newakl(shown.method, settings.addr) >>]_vars

============================================================================
