--------------------------------- MODULE Page ---------------------------------
(***************************************************************************)
(* The parts of the page that do not concern what is pinged: one behaviour *)
(* exercises one part, the others rest.  The parts share no state and are  *)
(* called by each other only where their own modules say so (a render has  *)
(* the bubbles laid out again, a turned page starts them), as an input.    *)
(***************************************************************************)
EXTENDS BubblePacking, Deck, Rendering, BubbleMotion, DrillDown, GroupSettings,
        Editor, PingSettings, NetworkInterface, Suggestions

CONSTANT PackCounts     \* hosts that a group may have when it is packed

VARIABLE part

Parts == {"packing", "deck", "rendering", "motion", "drill", "settings", "editor",
          "intervals", "interface", "inbox"}

pageVars == <<part, packVars, deckVars, renderVars, motionVars, drillVars, settingsVars,
              editorVars, intervalVars, interfaceVars, inboxVars>>

PageTypeOK ==
    /\ part \in Parts
    /\ DeckTypeOK /\ RenderingTypeOK /\ MotionTypeOK /\ DrillTypeOK
    /\ GroupSettingsTypeOK /\ EditorTypeOK /\ PingSettingsTypeOK
    /\ InterfaceTypeOK /\ SuggestionsTypeOK

\* A part that rests has one initial state.
PageInit ==
    /\ part \in Parts
    /\ \E counts \in [Names -> PackCounts] :
           /\ part # "packing" => \A n \in Names : counts[n] = 0
           /\ PackInit(counts)
    /\ DeckInit /\ (part # "deck" => spot = "fits")
    /\ PingSettingsInit
    /\ part # "intervals" => field = Low /\ \A h \in IHosts : server[h] = Low
    /\ part # "inbox" => link = "boot"
    /\ MotionInit /\ (part # "motion" => canvas = CHOOSE w \in Widths : TRUE)
    /\ RenderingInit /\ DrillInit /\ GroupSettingsInit /\ EditorInit
    /\ InterfaceInit /\ SuggestionsInit

PageNext ==
    \/ /\ part = "packing" /\ PackNext
       /\ UNCHANGED <<part, deckVars, renderVars, motionVars, drillVars, settingsVars,
                      editorVars, intervalVars, interfaceVars, inboxVars>>
    \/ /\ part = "deck" /\ DeckNext
       /\ UNCHANGED <<part, packVars, renderVars, motionVars, drillVars, settingsVars,
                      editorVars, intervalVars, interfaceVars, inboxVars>>
    \/ /\ part = "rendering" /\ RenderingNext
       /\ UNCHANGED <<part, packVars, deckVars, motionVars, drillVars, settingsVars,
                      editorVars, intervalVars, interfaceVars, inboxVars>>
    \/ /\ part = "motion" /\ MotionNext
       /\ UNCHANGED <<part, packVars, deckVars, renderVars, drillVars, settingsVars,
                      editorVars, intervalVars, interfaceVars, inboxVars>>
    \/ /\ part = "drill" /\ DrillNext
       /\ UNCHANGED <<part, packVars, deckVars, renderVars, motionVars, settingsVars,
                      editorVars, intervalVars, interfaceVars, inboxVars>>
    \/ /\ part = "settings" /\ GroupSettingsNext
       /\ UNCHANGED <<part, packVars, deckVars, renderVars, motionVars, drillVars,
                      editorVars, intervalVars, interfaceVars, inboxVars>>
    \/ /\ part = "editor" /\ EditorNext
       /\ UNCHANGED <<part, packVars, deckVars, renderVars, motionVars, drillVars,
                      settingsVars, intervalVars, interfaceVars, inboxVars>>
    \/ /\ part = "intervals" /\ PingSettingsNext
       /\ UNCHANGED <<part, packVars, deckVars, renderVars, motionVars, drillVars,
                      settingsVars, editorVars, interfaceVars, inboxVars>>
    \/ /\ part = "interface" /\ InterfaceNext
       /\ UNCHANGED <<part, packVars, deckVars, renderVars, motionVars, drillVars,
                      settingsVars, editorVars, intervalVars, inboxVars>>
    \/ /\ part = "inbox" /\ SuggestionsNext
       /\ UNCHANGED <<part, packVars, deckVars, renderVars, motionVars, drillVars,
                      settingsVars, editorVars, intervalVars, interfaceVars>>

PageSpec == PageInit /\ [][PageNext]_pageVars

-----------------------------------------------------------------------------
\* The groups page and the full-screen view of one host show what the Store
\* has, though each of them follows it in a way of its own: gathered in frames
\* the one, by a subscription the other.
PageShowsStore == PictureInPlace /\ DrillFollowsHost

\* A change made in a dialog goes to what the dialog shows: the group in the
\* title of the settings, the host in the fields of the editor, however late
\* the answers to earlier openings, savings and changes come.
DialogsActOnTheirOwn == SettingsOfTitle /\ NeverAnotherGroup /\ SavesItsHost

\* When nothing is under way the controls show what the server does, the
\* interval of the hosts, the interface, the suggestions, but for the accidents
\* that each of the three names.
QuietMeansCurrent == IntervalsHold /\ ChoiceHolds /\ InboxCurrent
=============================================================================
