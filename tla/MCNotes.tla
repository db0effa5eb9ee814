------------------------------- MODULE MCNotes -------------------------------
(* Pages one after another, or two at a time that send and read.             *)
EXTENDS Notes

VARIABLE nload

NotesLoads == {"calm", "system", "reload", "busy", "move"}
Unfiltered == {f \in DOMAIN n_folders : n_folders[f].in \cup n_folders[f].out = {}}

Quiet ==
  /\ AtRest
  /\ LET p == CHOOSE p \in Page : TRUE IN
     \/ Sends(p) \/ Picks(p) \/ Settings(p)
     \/ \E f \in Unfiltered : url_notes_settings(p, <<[do |-> "remove_folder", fid |-> f]>>)
     \/ nload = "system" /\ SystemNotes(p)
     \/ nload = "move" /\ Moves(p)

NotesLoadInit == NotesInit /\ nload \in NotesLoads

NotesLoadNext ==
  /\ UNCHANGED nload
  /\ \/ nload # "busy" /\ Quiet
     \/ nload = "reload" /\ load_notes
     \/ nload = "busy" /\ \E p \in Page : Sends(p) \/ Reads(p)
     \/ \E p \in Page : Steps(p)
     \/ update_datum

NotesLoadSpec == NotesLoadInit /\ [][NotesLoadNext]_<<notesVars, nload>>
=============================================================================
