-------------------------- MODULE SoundGraphProofs --------------------------
(***************************************************************************)
(* What the mutations of SoundGraph make of a project, for any presets,    *)
(* patterns and limits: a project again, whose parts all have their ids    *)
(* among those that were there or above the highest of them, and the       *)
(* commit of a session's graph, which leaves an entry of the edit log that *)
(* is newer than every part.                                               *)
(*                                                                         *)
(* The argument: PartsIn(p, I) says that every id of p is in I.  A         *)
(* mutation touches a few parts of the project, and each part it makes has *)
(* an id in Ample(p, k): the ids of p and the next k of the sequence.      *)
(* Clips and key zones also stay apart: what is added has an id above the  *)
(* others, and what is cut in two gets one.  That a clip and, say, an      *)
(* effect share no id, which UniqueIds also asks for, is not proved here.  *)
(***************************************************************************)
EXTENDS SoundGraph, FoldTheorems, FiniteSetTheorems, SequenceTheorems

----------------------------------------------------------------------------
(* What a mutation of the studio leaves alone *)

\* Parts stay parts when there are more ids.
LEMMA MoreIds ==
    ASSUME NEW I, NEW J, I \subseteq J
    PROVE  /\ \A t : TrackIn(t, I) => TrackIn(t, J)
           /\ \A tracks : TracksIn(tracks, I) => TracksIn(tracks, J)
           /\ \A r : RackIn(r, I) => RackIn(r, J)
           /\ \A z : ZoneIn(z, I) => ZoneIn(z, J)
           /\ \A c : ClipIn(c, I) => ClipIn(c, J)
           /\ \A e : EditIn(e, I) => EditIn(e, J)
           /\ \A p : PartsIn(p, I) => PartsIn(p, J)
<1>1. ASSUME NEW t, TrackIn(t, I) PROVE TrackIn(t, J)
    BY <1>1 DEF TrackIn, EffectIn, ModulatorIn
<1>2. ASSUME NEW tracks, TracksIn(tracks, I) PROVE TracksIn(tracks, J)
    BY <1>1, <1>2 DEF TracksIn
<1>3. \A r : RackIn(r, I) => RackIn(r, J)
    BY DEF RackIn
<1>4. \A z : ZoneIn(z, I) => ZoneIn(z, J)
    BY DEF ZoneIn
<1>5. \A c : ClipIn(c, I) => ClipIn(c, J)
    BY DEF ClipIn
<1>6. \A e : EditIn(e, I) => EditIn(e, J)
    BY DEF EditIn
<1>7. ASSUME NEW p, PartsIn(p, I) PROVE PartsIn(p, J)
    BY <1>3, <1>4, <1>5, <1>6, <1>7, <1>2 DEF PartsIn
<1> QED BY <1>1, <1>3, <1>4, <1>5, <1>6, <1>7, <1>2

\* A project that is the next version of another one, and the same but for some parts.
Touches(p, q, parts) ==
    /\ IsProject(q) /\ q.version = p.version + 1
    /\ \A part \in Parts \ (parts \cup {"version"}) : q[part] = p[part]

\* Only the parts that are touched can have new ids.
LEMMA PartsStay ==
    ASSUME NEW p, NEW q, NEW parts, Touches(p, q, parts), NEW I, PartsIn(p, I)
    PROVE  /\ "tracks" \notin parts => TracksIn(q.tracks, I)
           /\ "racks" \notin parts => \A r \in q.racks : RackIn(r, I)
           /\ "key_zones" \notin parts => \A z \in q.key_zones : ZoneIn(z, I)
           /\ "clips" \notin parts => \A c \in q.clips : ClipIn(c, I)
           /\ "edits" \notin parts => \A e \in q.edits : EditIn(e, I)
<1>1. /\ "tracks" \notin parts => q.tracks = p.tracks
      /\ "racks" \notin parts => q.racks = p.racks
      /\ "key_zones" \notin parts => q.key_zones = p.key_zones
      /\ "clips" \notin parts => q.clips = p.clips
      /\ "edits" \notin parts => q.edits = p.edits
    BY DEF Touches, Parts
<1> QED BY <1>1 DEF PartsIn

\* What the studio grants is the next version of what it made.
LEMMA TouchTracks ==
    ASSUME NEW p, IsProject(p), NEW ok, NEW tracks,
           NEW q \in Given(ok, [p EXCEPT !.tracks = tracks])
    PROVE  ok /\ Touches(p, q, {"tracks"}) /\ q.tracks = tracks
BY DEF Given, Touches, IsProject, Has, Parts

\* The same of racks.
LEMMA TouchRacks ==
    ASSUME NEW p, IsProject(p), NEW ok, NEW racks,
           NEW q \in Given(ok, [p EXCEPT !.racks = racks])
    PROVE  ok /\ Touches(p, q, {"racks"}) /\ q.racks = racks
BY DEF Given, Touches, IsProject, Has, Parts

\* The same of key zones.
LEMMA TouchZones ==
    ASSUME NEW p, IsProject(p), NEW ok, NEW zones,
           NEW q \in Given(ok, [p EXCEPT !.key_zones = zones])
    PROVE  ok /\ Touches(p, q, {"key_zones"}) /\ q.key_zones = zones
BY DEF Given, Touches, IsProject, Has, Parts

\* The same of clips.
LEMMA TouchClips ==
    ASSUME NEW p, IsProject(p), NEW ok, NEW clips,
           NEW q \in Given(ok, [p EXCEPT !.clips = clips])
    PROVE  ok /\ Touches(p, q, {"clips"}) /\ q.clips = clips
BY DEF Given, Touches, IsProject, Has, Parts

\* A mutation that touches some parts, and what ids its parts have.
Makes(p, q, parts, I) == Touches(p, q, parts) /\ PartsIn(q, I)

\* A mutation that touches tracks only, and whether the tracks are still there.
Shapes(p, q, I) == Makes(p, q, {"tracks"}, I) /\ TrackIds(p) \subseteq TrackIds(q)

\* The tracks but one are as they were.
Spares(p, q, id) == {t \in q.tracks : t.id # id} = {t \in p.tracks : t.id # id}

\* The track with an id changes, and keeps it.
Changes(p, q, id, f, I) ==
    /\ q.tracks = {IF t.id = id THEN f[t] ELSE t : t \in p.tracks}
    /\ \A t \in p.tracks : TrackIn(f[t], I) /\ f[t].id = t.id

\* Tracks that changed are still there.
LEMMA TracksStay ==
    ASSUME NEW p, NEW q, NEW I, NEW id, NEW f, PartsIn(p, I), Touches(p, q, {"tracks"}),
           Changes(p, q, id, f, I)
    PROVE  Shapes(p, q, I) /\ Spares(p, q, id)
<1>1. TracksIn(p.tracks, I)
    BY DEF PartsIn
<1>2. \A t \in q.tracks : TrackIn(t, I)
    BY <1>1 DEF TracksIn, Changes
<1>3. \A t \in q.tracks : \E x \in p.tracks : x.id = t.id /\ t = IF x.id = id THEN f[x] ELSE x
    BY DEF Changes
<1>4. \A t, u \in q.tracks : t.id = u.id => t = u
    BY <1>1, <1>3 DEF TracksIn
<1>5. TracksIn(q.tracks, I)
    BY <1>2, <1>4 DEF TracksIn
<1>6. \A t \in p.tracks : \E u \in q.tracks : u.id = t.id
    BY DEF Changes
<1>7. TrackIds(p) \subseteq TrackIds(q)
    BY <1>6 DEF TrackIds
<1>8. PartsIn(q, I)
    BY <1>5, PartsStay DEF PartsIn
<1>9. \A t \in p.tracks : t.id # id => t \in q.tracks
    BY DEF Changes
<1>10. \A t \in q.tracks : t.id # id => t \in p.tracks
    BY <1>3
<1>11. Spares(p, q, id)
    BY <1>9, <1>10 DEF Spares
<1> QED BY <1>7, <1>8, <1>11 DEF Shapes, Makes

----------------------------------------------------------------------------
(* Mutations of tracks that give no ids *)

\* A track that is muted or not.
LEMMA MixShapes ==
    ASSUME NEW p, IsProject(p), NEW I, PartsIn(p, I), NEW id, NEW muted,
           NEW q \in set_mix(p, id, muted)
    PROVE  Shapes(p, q, I) /\ Spares(p, q, id)
<1> DEFINE f == [t \in p.tracks |-> [t EXCEPT !.muted = muted]]
<1>1. /\ Touches(p, q, {"tracks"})
      /\ q.tracks = {IF t.id = id THEN [t EXCEPT !.muted = muted] ELSE t : t \in p.tracks}
    BY TouchTracks DEF set_mix, OnTrack
<1>2. ASSUME NEW t \in p.tracks PROVE TrackIn(f[t], I) /\ f[t].id = t.id
  <2>1. TrackIn(t, I)
      BY DEF PartsIn, TracksIn
  <2> QED BY <2>1 DEF TrackIn, Has, TrackParts
<1>3. Changes(p, q, id, f, I)
    BY <1>1, <1>2 DEF Changes
<1> HIDE DEF f
<1> QED BY <1>1, <1>3, TracksStay

\* A track that gets a name.
LEMMA IdentityShapes ==
    ASSUME NEW p, IsProject(p), NEW I, PartsIn(p, I), NEW id, NEW name,
           NEW q \in set_track_identity(p, id, name)
    PROVE  Shapes(p, q, I) /\ Spares(p, q, id)
<1> DEFINE f == [t \in p.tracks |-> [t EXCEPT !.name = name]]
<1>1. /\ Touches(p, q, {"tracks"})
      /\ q.tracks = {IF t.id = id THEN [t EXCEPT !.name = name] ELSE t : t \in p.tracks}
    BY TouchTracks DEF set_track_identity, OnTrack
<1>2. ASSUME NEW t \in p.tracks PROVE TrackIn(f[t], I) /\ f[t].id = t.id
  <2>1. TrackIn(t, I)
      BY DEF PartsIn, TracksIn
  <2> QED BY <2>1 DEF TrackIn, Has, TrackParts
<1>3. Changes(p, q, id, f, I)
    BY <1>1, <1>2 DEF Changes
<1> HIDE DEF f
<1> QED BY <1>1, <1>3, TracksStay

\* A native parameter.
LEMMA NativeShapes ==
    ASSUME NEW p, IsProject(p), NEW I, PartsIn(p, I), NEW id, NEW q \in configure_native(p, id)
    PROVE  Shapes(p, q, I) /\ Spares(p, q, id)
<1> DEFINE f == [t \in p.tracks |-> [t EXCEPT !.tuned = TRUE]]
<1>1. /\ Touches(p, q, {"tracks"})
      /\ q.tracks = {IF t.id = id THEN [t EXCEPT !.tuned = TRUE] ELSE t : t \in p.tracks}
    BY TouchTracks DEF configure_native, Configured, OnTrack
<1>2. ASSUME NEW t \in p.tracks PROVE TrackIn(f[t], I) /\ f[t].id = t.id
  <2>1. TrackIn(t, I)
      BY DEF PartsIn, TracksIn
  <2> QED BY <2>1 DEF TrackIn, Has, TrackParts
<1>3. Changes(p, q, id, f, I)
    BY <1>1, <1>2 DEF Changes
<1> HIDE DEF f
<1> QED BY <1>1, <1>3, TracksStay

\* An effect that is switched.
LEMMA EffectShapes ==
    ASSUME NEW p, IsProject(p), NEW I, PartsIn(p, I), NEW id, NEW effect, NEW enabled,
           NEW q \in configure_effect(p, id, effect, enabled)
    PROVE  Shapes(p, q, I) /\ Spares(p, q, id)
<1> DEFINE Switched(e) == IF e.id = effect THEN [e EXCEPT !.enabled = enabled] ELSE e
           Changed(t) == [t EXCEPT !.effects = {Switched(e) : e \in @}]
           F == [t \in p.tracks |-> Changed(t)]
<1>1. /\ Touches(p, q, {"tracks"})
      /\ q.tracks = {IF t.id = id THEN Changed(t) ELSE t : t \in p.tracks}
    BY TouchTracks DEF configure_effect, Configured, OnTrack
<1>2. ASSUME NEW t \in p.tracks PROVE TrackIn(Changed(t), I) /\ Changed(t).id = t.id
  <2>1. TrackIn(t, I)
      BY DEF PartsIn, TracksIn
  <2>2. \A e \in t.effects : EffectIn(Switched(e), I)
      BY <2>1 DEF TrackIn, EffectIn, Has, EffectParts
  <2> DEFINE f == [e \in t.effects |-> Switched(e)]
  <2>3. IsFiniteSet({f[e] : e \in t.effects})
    <3> HIDE DEF f
    <3> QED BY <2>1, ImageFinite DEF TrackIn
  <2>4. {f[e] : e \in t.effects} = {Switched(e) : e \in t.effects}
    <3> HIDE DEF Switched
    <3> QED OBVIOUS
  <2> HIDE DEF f
  <2> DEFINE effects == {Switched(e) : e \in t.effects}
  <2> HIDE DEF Switched
  <2>5. \A e \in effects : EffectIn(e, I)
      BY <2>2
  <2>6. Changed(t) = [t EXCEPT !.effects = effects]
      OBVIOUS
  <2> HIDE DEF effects, Changed
  <2> QED BY <2>1, <2>3, <2>5, <2>4, <2>6 DEF TrackIn, Has, TrackParts, effects
<1> HIDE DEF Changed
<1>3. Changes(p, q, id, F, I)
    BY <1>1, <1>2 DEF Changes
<1> HIDE DEF F
<1> QED BY <1>1, <1>3, TracksStay

\* An effect that is gone.
LEMMA EffectGone ==
    ASSUME NEW p, IsProject(p), NEW I, PartsIn(p, I), NEW id, NEW effect,
           NEW q \in delete_effect(p, id, effect)
    PROVE  Shapes(p, q, I) /\ Spares(p, q, id)
<1> DEFINE order(t) == SelectSeq(t.effect_order, LAMBDA e : e # effect)
           kept(t) == {e \in t.effects : e.id # effect}
           Changed(t) == [t EXCEPT !.effects = kept(t), !.effect_order = order(t)]
           F == [t \in p.tracks |-> Changed(t)]
<1>1. /\ Touches(p, q, {"tracks"})
      /\ q.tracks = {IF t.id = id THEN Changed(t) ELSE t : t \in p.tracks}
    BY TouchTracks DEF delete_effect, OnTrack
<1> HIDE DEF order
<1>2. ASSUME NEW t \in p.tracks PROVE TrackIn(Changed(t), I) /\ Changed(t).id = t.id
  <2>1. TrackIn(t, I)
      BY DEF PartsIn, TracksIn
  <2>2. IsFiniteSet(kept(t))
      BY <2>1, FS_Subset DEF TrackIn
  <2> QED BY <2>1, <2>2 DEF TrackIn, Has, TrackParts
<1> HIDE DEF Changed
<1>3. Changes(p, q, id, F, I)
    BY <1>1, <1>2 DEF Changes
<1> HIDE DEF F
<1> QED BY <1>1, <1>3, TracksStay

\* A modulator that is gone.
LEMMA ModulatorGone ==
    ASSUME NEW p, IsProject(p), NEW I, PartsIn(p, I), NEW id, NEW modulator,
           NEW q \in delete_modulator(p, id, modulator)
    PROVE  Shapes(p, q, I) /\ Spares(p, q, id)
<1> DEFINE kept(t) == {m \in t.modulators : m.id # modulator}
           Changed(t) == [t EXCEPT !.modulators = kept(t)]
           F == [t \in p.tracks |-> Changed(t)]
<1>1. /\ Touches(p, q, {"tracks"})
      /\ q.tracks = {IF t.id = id THEN Changed(t) ELSE t : t \in p.tracks}
    BY TouchTracks DEF delete_modulator, OnTrack
<1>2. ASSUME NEW t \in p.tracks PROVE TrackIn(Changed(t), I) /\ Changed(t).id = t.id
  <2>1. TrackIn(t, I)
      BY DEF PartsIn, TracksIn
  <2>2. IsFiniteSet(kept(t))
      BY <2>1, FS_Subset DEF TrackIn
  <2> QED BY <2>1, <2>2 DEF TrackIn, Has, TrackParts
<1> HIDE DEF Changed
<1>3. Changes(p, q, id, F, I)
    BY <1>1, <1>2 DEF Changes
<1> HIDE DEF F
<1> QED BY <1>1, <1>3, TracksStay

\* A modulator that is configured anew: the one it was keeps its id.
LEMMA ModulatorShapes ==
    ASSUME NEW p, IsProject(p), NEW I, PartsIn(p, I), NEW id, NEW modulator, NEW value,
           NEW parameter \in {"target", "trigger", "enabled", "source"},
           NEW q \in configure_modulator(p, id, modulator, parameter, value)
    PROVE  Shapes(p, q, I) /\ Spares(p, q, id)
<1> DEFINE owner == TrackOf(p, id)
           current == CHOOSE m \in owner.modulators : m.id = modulator
           changed == CASE parameter = "target" -> [current EXCEPT !.target = value]
                        [] parameter = "trigger" -> Retriggered(current, id, value)
                        [] parameter = "enabled" -> [current EXCEPT !.enabled = value]
                        [] parameter = "source" ->
                               IF current.trigger = "free" THEN current
                               ELSE [current EXCEPT !.source = value]
           Changed(t) == [t EXCEPT !.modulators = (t.modulators \ {current}) \cup {changed}]
           F == [t \in p.tracks |-> Changed(t)]
<1>1. PICK own \in p.tracks : own.id = id /\ \E m \in own.modulators : m.id = modulator
    BY DEF configure_modulator
<1>2. owner = own
    BY <1>1 DEF TrackOf, PartsIn, TracksIn
<1> HIDE DEF owner
<1>3. current \in own.modulators /\ TrackIn(own, I)
    BY <1>1, <1>2 DEF PartsIn, TracksIn
<1> HIDE DEF current
<1>4. ModulatorIn(changed, I)
    BY <1>3 DEF TrackIn, ModulatorIn, Retriggered, Has, ModulatorParts
<1> HIDE DEF changed
<1>5. /\ Touches(p, q, {"tracks"})
      /\ q.tracks = {IF u.id = id THEN Changed(u) ELSE u : u \in p.tracks}
  <2>1. q \in Configured(parameter \in {"target", "trigger"}
                            => valid_modulator_target(owner, changed.target, changed.trigger), p,
                        OnTrack(p, id, LAMBDA t :
                            [t EXCEPT !.modulators = (@ \ {current}) \cup {changed}]))
      BY <1>1 DEF configure_modulator, owner, current, changed
  <2> QED BY <2>1, TouchTracks DEF Configured, OnTrack
<1>6. ASSUME NEW t \in p.tracks PROVE TrackIn(Changed(t), I) /\ Changed(t).id = t.id
  <2> DEFINE all == (t.modulators \ {current}) \cup {changed}
  <2>1. TrackIn(t, I)
      BY DEF PartsIn, TracksIn
  <2>2. IsFiniteSet(all)
    <3>1. IsFiniteSet(t.modulators \ {current})
        BY <2>1, FS_Subset DEF TrackIn
    <3> QED BY <3>1, FS_AddElement
  <2>3. \A m \in all : ModulatorIn(m, I)
      BY <1>4, <2>1 DEF TrackIn
  <2> HIDE DEF all
  <2> QED BY <2>1, <2>2, <2>3 DEF TrackIn, Has, TrackParts, all
<1> HIDE DEF Changed
<1>7. Changes(p, q, id, F, I)
    BY <1>5, <1>6 DEF Changes
<1> HIDE DEF F
<1> QED BY <1>5, <1>7, TracksStay

----------------------------------------------------------------------------
(* Mutations of tracks that give ids *)

\* The ids from the next one on, k more of them, are in a set.
Room(p, k, I) == NextId(p) \in Nat /\ NextId(p) .. (NextId(p) + k) \subseteq I

\* A new effect.
LEMMA EffectAdded ==
    ASSUME NEW p, IsProject(p), NEW I, PartsIn(p, I), Room(p, 0, I), NEW id,
           NEW q \in create_effect(p, id)
    PROVE  Shapes(p, q, I) /\ Spares(p, q, id)
<1> DEFINE new == [id |-> NextId(p), slot |-> Added, enabled |-> TRUE]
           order(t) == Append(t.effect_order, NextId(p))
           Changed(t) == [t EXCEPT !.effects = t.effects \cup {new}, !.effect_order = order(t)]
           F == [t \in p.tracks |-> Changed(t)]
<1>1. /\ Touches(p, q, {"tracks"})
      /\ q.tracks = {IF t.id = id THEN Changed(t) ELSE t : t \in p.tracks}
    BY TouchTracks DEF create_effect, OnTrack
<1>2. NextId(p) \in I
    BY DEF Room
<1>3. EffectIn(new, I)
    BY <1>2 DEF EffectIn, Has, EffectParts
<1> HIDE DEF order, new
<1>4. ASSUME NEW t \in p.tracks PROVE TrackIn(Changed(t), I) /\ Changed(t).id = t.id
  <2> DEFINE all == t.effects \cup {new}
  <2>1. TrackIn(t, I)
      BY DEF PartsIn, TracksIn
  <2>2. IsFiniteSet(all)
      BY <2>1, FS_AddElement DEF TrackIn
  <2>3. \A e \in all : EffectIn(e, I)
      BY <1>3, <2>1 DEF TrackIn
  <2> HIDE DEF all
  <2> QED BY <2>1, <2>2, <2>3 DEF TrackIn, Has, TrackParts, all
<1> HIDE DEF Changed
<1>5. Changes(p, q, id, F, I)
    BY <1>1, <1>4 DEF Changes
<1> HIDE DEF F
<1> QED BY <1>1, <1>5, TracksStay

\* A new modulator.
LEMMA ModulatorAdded ==
    ASSUME NEW p, IsProject(p), NEW I, PartsIn(p, I), Room(p, 0, I), NEW id, NEW target,
           NEW trigger, NEW q \in create_modulator(p, id, target, trigger)
    PROVE  Shapes(p, q, I) /\ Spares(p, q, id)
<1> DEFINE owner == TrackOf(p, id)
           new == [id |-> NextId(p), trigger |-> trigger, target |-> target, enabled |-> TRUE,
                   source |-> IF trigger = "midi" THEN id ELSE NoSource]
           all == owner.modulators \cup {new}
           Changed(t) == [t EXCEPT !.modulators = all]
           F == [t \in p.tracks |-> Changed(t)]
<1>1. PICK own \in p.tracks : own.id = id
    BY DEF create_modulator, TrackIds
<1>2. owner = own /\ TrackIn(own, I)
    BY <1>1 DEF TrackOf, PartsIn, TracksIn
<1>3. /\ Touches(p, q, {"tracks"})
      /\ q.tracks = {IF t.id = id THEN Changed(t) ELSE t : t \in p.tracks}
  <2>1. q \in Given(/\ valid_modulator_target(owner, target, trigger)
                    /\ native_modulator_slots_fit(all),
                    OnTrack(p, id, LAMBDA t : [t EXCEPT !.modulators = all]))
      BY <1>1 DEF create_modulator, TrackIds
  <2> HIDE DEF all, owner
  <2> QED BY <2>1, TouchTracks DEF OnTrack
<1>4. NextId(p) \in I
    BY DEF Room
<1>5. ModulatorIn(new, I)
    BY <1>4 DEF ModulatorIn, Has, ModulatorParts
<1> HIDE DEF new, owner
<1>6. IsFiniteSet(all)
    BY <1>2, FS_AddElement DEF TrackIn
<1>7. \A m \in all : ModulatorIn(m, I)
    BY <1>2, <1>5 DEF TrackIn
<1> HIDE DEF all
<1>8. ASSUME NEW t \in p.tracks PROVE TrackIn(Changed(t), I) /\ Changed(t).id = t.id
  <2>1. TrackIn(t, I)
      BY DEF PartsIn, TracksIn
  <2> QED BY <1>6, <1>7, <2>1 DEF TrackIn, Has, TrackParts
<1> HIDE DEF Changed
<1>9. Changes(p, q, id, F, I)
    BY <1>3, <1>8 DEF Changes
<1> HIDE DEF F
<1> QED BY <1>3, <1>9, TracksStay

\* Things that are numbered get the ids after the first one.
LEMMA NumberedInRoom ==
    ASSUME NEW things, IsFiniteSet(things), NEW first \in Nat, NEW thing \in things
    PROVE  Numbered(things, first)[thing] \in first .. (first + Cardinality(things))
<1> DEFINE before == {other \in things : other < thing}
<1>1. IsFiniteSet(before) /\ Cardinality(before) <= Cardinality(things)
    BY FS_Subset
<1>2. Cardinality(before) \in Nat /\ Cardinality(things) \in Nat
    BY <1>1, FS_CardinalityType
<1>3. Numbered(things, first)[thing] = first + Cardinality(before)
    BY DEF Numbered
<1> HIDE DEF before
<1> QED BY <1>1, <1>2, <1>3

\* The effects of a preset: those of a slot that is kept have their id, the others are
\* numbered.
LEMMA PresetEffects ==
    ASSUME NEW track, NEW I, TrackIn(track, I), NEW preset, IsFiniteSet(PresetSlots[preset]),
           NEW next \in Nat, next .. (next + Cardinality(PresetSlots[preset])) \subseteq I
    PROVE  LET brought == preset_effects(track, preset, next)
           IN IsFiniteSet(brought) /\ \A e \in brought : EffectIn(e, I)
<1> DEFINE slots == PresetSlots[preset]
           kept == {e.slot : e \in track.effects} \ {Added}
           fresh == Numbered(slots \ kept, next)
           IdOf(s) == IF s \in kept THEN (CHOOSE e \in track.effects : e.slot = s).id
                      ELSE fresh[s]
           f == [s \in slots |-> [id |-> IdOf(s), slot |-> s, enabled |-> TRUE]]
           brought == preset_effects(track, preset, next)
<1>1. brought = {f[s] : s \in slots}
    BY DEF preset_effects
<1>2. ASSUME NEW s \in slots PROVE IdOf(s) \in I
  <2>1. CASE s \in kept
    <3>1. \E e \in track.effects : e.slot = s
        BY <2>1
    <3> QED BY <2>1, <3>1 DEF TrackIn, EffectIn
  <2>2. CASE s \notin kept
    <3> DEFINE new == slots \ kept
    <3>1. IsFiniteSet(new) /\ Cardinality(new) <= Cardinality(slots)
        BY FS_Subset
    <3>2. Cardinality(new) \in Nat /\ Cardinality(slots) \in Nat
        BY <3>1, FS_CardinalityType
    <3>3. s \in new
        BY <2>2
    <3>4. IdOf(s) = Numbered(new, next)[s]
        BY <2>2
    <3> HIDE DEF new, slots, IdOf
    <3>5. IdOf(s) \in next .. (next + Cardinality(new))
        BY <3>1, <3>3, <3>4, NumberedInRoom
    <3>6. IdOf(s) \in next .. (next + Cardinality(slots))
        BY <3>1, <3>2, <3>5
    <3> QED BY <3>6 DEF slots
  <2> QED BY <2>1, <2>2
<1> HIDE DEF IdOf
<1>3. \A s \in slots : EffectIn(f[s], I)
    BY <1>2 DEF EffectIn, Has, EffectParts
<1> HIDE DEF f
<1>4. IsFiniteSet({f[s] : s \in slots})
    BY ImageFinite
<1> QED BY <1>1, <1>3, <1>4

\* The patterns and the presets of the engine are finite things.
LEMMA EngineIsFinite ==
    /\ \A preset \in Presets : IsFiniteSet(PresetSlots[preset])
    /\ \A pattern \in Patterns : NoteCount[pattern] \in Nat
BY EngineAssumption DEF Patterns

\* A track that is replaced by one with its id.
LEMMA TrackReplaced ==
    ASSUME NEW p, NEW q, NEW I, NEW id, NEW changed, PartsIn(p, I), Touches(p, q, {"tracks"}),
           q.tracks = {t \in p.tracks : t.id # id} \cup {changed},
           TrackIn(changed, I), changed.id = id
    PROVE  Shapes(p, q, I) /\ Spares(p, q, id)
<1>1. TracksIn(p.tracks, I)
    BY DEF PartsIn
<1>2. TracksIn(q.tracks, I)
  <2>1. \A t \in q.tracks : TrackIn(t, I)
      BY <1>1 DEF TracksIn
  <2>2. \A t, u \in q.tracks : t.id = u.id => t = u
      BY <1>1 DEF TracksIn
  <2> QED BY <2>1, <2>2 DEF TracksIn
<1>3. PartsIn(q, I)
    BY <1>2, PartsStay DEF PartsIn
<1>4. \A t \in p.tracks : \E u \in q.tracks : u.id = t.id
    OBVIOUS
<1>5. TrackIds(p) \subseteq TrackIds(q)
    BY <1>4 DEF TrackIds
<1>6. Spares(p, q, id)
    BY DEF Spares
<1> QED BY <1>3, <1>5, <1>6 DEF Shapes, Makes

\* A preset for a track.
LEMMA PresetShapes ==
    ASSUME NEW p, IsProject(p), NEW I, PartsIn(p, I), NEW id, NEW preset \in Presets,
           Room(p, Cardinality(PresetSlots[preset]), I),
           NEW q \in configure_track_preset(p, id, preset)
    PROVE  Shapes(p, q, I) /\ Spares(p, q, id)
<1> DEFINE owner == TrackOf(p, id)
           brought == preset_effects(owner, preset, NextId(p))
           added == {e \in owner.effects : e.slot = Added}
           order == SetToSortSeq(brought, LAMBDA e, f : e.slot < f.slot)
           arranged == [i \in DOMAIN order |-> order[i].id]
                           \o SelectSeq(owner.effect_order, LAMBDA x : \E e \in added : e.id = x)
           plain == [owner EXCEPT !.preset = preset, !.tuned = FALSE,
                                  !.effects = brought \cup added, !.effect_order = arranged]
           fitting == {m \in plain.modulators : valid_modulator_target(plain, m.target, m.trigger)}
           loaded == [plain EXCEPT !.modulators = fitting]
<1>1. PICK own \in p.tracks : own.id = id
    BY DEF configure_track_preset, TrackIds
<1>2. owner = own /\ TrackIn(own, I)
    BY <1>1 DEF TrackOf, PartsIn, TracksIn
<1>3. q \in Configured(track_effects_fit(loaded), p, WithTrack(p, id, loaded))
    BY <1>1 DEF configure_track_preset, TrackIds
<1> HIDE DEF owner
<1>4. IsFiniteSet(brought) /\ \A e \in brought : EffectIn(e, I)
    BY <1>2, PresetEffects, EngineIsFinite DEF Room
<1>5. IsFiniteSet(brought \cup added) /\ \A e \in brought \cup added : EffectIn(e, I)
  <2>1. IsFiniteSet(added) /\ \A e \in added : EffectIn(e, I)
      BY <1>2, FS_Subset DEF TrackIn
  <2> HIDE DEF brought, added
  <2> QED BY <1>4, <2>1, FS_Union
<1> HIDE DEF brought, added, order, arranged
<1>6. Has(plain, TrackParts) /\ plain.id = id /\ plain.instrument \in I
      /\ plain.effects = brought \cup added /\ plain.modulators = own.modulators
    BY <1>1, <1>2 DEF TrackIn, Has, TrackParts
<1> HIDE DEF plain
<1>7. IsFiniteSet(fitting) /\ \A m \in fitting : ModulatorIn(m, I)
    BY <1>2, <1>6, FS_Subset DEF TrackIn
<1> HIDE DEF fitting
<1>8. TrackIn(loaded, I) /\ loaded.id = id
    BY <1>1, <1>2, <1>5, <1>6, <1>7 DEF TrackIn, Has, TrackParts
<1> HIDE DEF loaded
<1>9. /\ Touches(p, q, {"tracks"})
      /\ q.tracks = {t \in p.tracks : t.id # id} \cup {loaded}
  <2> DEFINE all == {t \in p.tracks : t.id # id} \cup {loaded}
  <2>1. WithTrack(p, id, loaded) = [p EXCEPT !.tracks = all]
      BY DEF WithTrack
  <2> HIDE DEF all
  <2>2. Touches(p, q, {"tracks"}) /\ q.tracks = all
      BY <1>3, <2>1, TouchTracks DEF Configured
  <2> QED BY <2>2 DEF all
<1> QED BY <1>8, <1>9, TrackReplaced

\* A new track.
LEMMA TrackAdded ==
    ASSUME NEW p, IsProject(p), NEW I, PartsIn(p, I), Room(p, 1, I), NextId(p) \notin TrackIds(p),
           NEW name, NEW q \in add_described_channel(p, name)
    PROVE  Makes(p, q, {"tracks"}, I)
<1> DEFINE id == NextId(p)
           new == [empty_track(id, id + 1) EXCEPT !.name = name]
<1>1. Touches(p, q, {"tracks"}) /\ q.tracks = p.tracks \cup {new}
  <2> DEFINE ok == Cardinality(p.tracks) < TRACK_LIMIT
             all == p.tracks \cup {new}
  <2>1. q \in Given(ok, [p EXCEPT !.tracks = all])
      BY DEF add_described_channel
  <2> HIDE DEF ok, all
  <2>2. Touches(p, q, {"tracks"}) /\ q.tracks = all
      BY <2>1, TouchTracks
  <2> QED BY <2>2 DEF all
<1>2. id \in I /\ id + 1 \in I
    BY DEF Room
<1>3. TrackIn(new, I) /\ new.id = id
  <2>1. IsFiniteSet({})
      BY FS_EmptySet
  <2> HIDE DEF id
  <2> QED BY <1>2, <2>1 DEF empty_track, TrackIn, Has, TrackParts
<1> HIDE DEF new
<1>4. TracksIn(q.tracks, I)
    BY <1>1, <1>3 DEF PartsIn, TracksIn, TrackIds
<1>5. PartsIn(q, I)
    BY <1>1, <1>4, PartsStay DEF PartsIn
<1> QED BY <1>1, <1>5 DEF Makes

\* The sound of an audition slot becomes a track, which is played in a zone of its own:
\* all that is in it gets ids of the project.
LEMMA SoundAdded ==
    ASSUME NEW p, IsProject(p), NEW I, PartsIn(p, I), NEW source, NEW J, TrackIn(source, J),
           Room(p, 2 + Cardinality(source.effects) + Cardinality(source.modulators), I),
           NextId(p) \notin TrackIds(p), NEW rack, NEW name, NEW low, NEW high,
           NEW q \in add_configured_channel(p, rack, source, name, low, high)
    PROVE  Makes(p, q, {"tracks", "key_zones"}, I)
<1> DEFINE id == NextId(p)
           ne == Cardinality(source.effects)
           nm == Cardinality(source.modulators)
           eids == EffectIds(source)
           mids == {m.id : m \in source.modulators}
           effect == Numbered(eids, id + 2)
           modulator == Numbered(mids, id + 2 + ne)
           fe == [e \in source.effects |-> [e EXCEPT !.id = effect[@]]]
           fm == [m \in source.modulators |->
                     [m EXCEPT !.id = modulator[@],
                               !.source = IF m.trigger = "free" THEN @ ELSE id]]
           effects == {[e EXCEPT !.id = effect[@]] : e \in source.effects}
           modulators == {[m EXCEPT !.id = modulator[@],
                               !.source = IF m.trigger = "free" THEN @ ELSE id]
                            : m \in source.modulators}
           order == [i \in DOMAIN source.effect_order |-> effect[source.effect_order[i]]]
           track == [source EXCEPT
            !.id = id, !.instrument = id + 1, !.name = name,
            !.effects = effects, !.effect_order = order, !.modulators = modulators]
           zone == [id |-> id + 2 + ne + nm, rack |-> rack, instrument |-> id + 1,
                    low |-> low, high |-> high]
<1>1. /\ IsProject(q) /\ q.version = p.version + 1
      /\ q = [p EXCEPT !.tracks = p.tracks \cup {track}, !.key_zones = p.key_zones \cup {zone},
                       !.version = q.version]
  <2>1. q \in Given(/\ rack \in RackIds(p) /\ low <= high
                    /\ Cardinality(p.tracks) < TRACK_LIMIT
                    /\ Cardinality(p.key_zones) < KEY_ZONE_LIMIT,
                    [p EXCEPT !.tracks = p.tracks \cup {track},
                              !.key_zones = p.key_zones \cup {zone}])
      BY DEF add_configured_channel
  <2> HIDE DEF track, zone
  <2> QED BY <2>1 DEF Given, IsProject, Has, Parts
<1> HIDE DEF track, zone
<1>2. Touches(p, q, {"tracks", "key_zones"})
    BY <1>1 DEF Touches, IsProject, Has, Parts
<1>3. q.tracks = p.tracks \cup {track} /\ q.key_zones = p.key_zones \cup {zone}
    BY <1>1 DEF IsProject, Has, Parts
<1>4. id \in Nat /\ ne \in Nat /\ nm \in Nat /\ id .. (id + 2 + ne + nm) \subseteq I
      /\ IsFiniteSet(source.effects) /\ IsFiniteSet(source.modulators)
  <2>1. IsFiniteSet(source.effects) /\ IsFiniteSet(source.modulators)
      BY DEF TrackIn
  <2>2. ne \in Nat /\ nm \in Nat
      BY <2>1, FS_CardinalityType
  <2>3. id \in Nat /\ id .. (id + (2 + ne + nm)) \subseteq I
      BY DEF Room
  <2> HIDE DEF id, ne, nm
  <2>4. id + (2 + ne + nm) = id + 2 + ne + nm
      BY <2>2, <2>3
  <2> QED BY <2>1, <2>2, <2>3, <2>4
<1>5. \A x \in eids : effect[x] \in I
  <2> DEFINE g == [e \in source.effects |-> e.id]
  <2>1. eids = {g[e] : e \in source.effects}
      BY DEF EffectIds
  <2> HIDE DEF g
  <2>2. IsFiniteSet(eids) /\ Cardinality(eids) <= ne
      BY <1>4, <2>1, ImageFinite
  <2>3. Cardinality(eids) \in Nat
      BY <2>2, FS_CardinalityType
  <2> HIDE DEF eids, id, ne, nm, effect
  <2>4. ASSUME NEW x \in eids PROVE effect[x] \in (id + 2) .. (id + 2 + Cardinality(eids))
    <3>1. id + 2 \in Nat
        BY <1>4
    <3> QED BY <2>2, <3>1, NumberedInRoom DEF effect
  <2>5. (id + 2) .. (id + 2 + Cardinality(eids)) \subseteq id .. (id + 2 + ne + nm)
      BY <1>4, <2>2, <2>3
  <2> QED BY <1>4, <2>4, <2>5
<1>6. \A x \in mids : modulator[x] \in I
  <2> DEFINE g == [m \in source.modulators |-> m.id]
  <2>1. mids = {g[e] : e \in source.modulators}
      OBVIOUS
  <2> HIDE DEF g
  <2>2. IsFiniteSet(mids) /\ Cardinality(mids) <= nm
    <3> HIDE DEF mids
    <3> QED BY <1>4, <2>1, ImageFinite
  <2>3. Cardinality(mids) \in Nat
      BY <2>2, FS_CardinalityType
  <2> HIDE DEF mids, id, ne, nm, modulator
  <2>4. ASSUME NEW x \in mids
        PROVE  modulator[x] \in (id + 2 + ne) .. (id + 2 + ne + Cardinality(mids))
    <3>1. id + 2 + ne \in Nat
        BY <1>4
    <3> QED BY <2>2, <3>1, NumberedInRoom DEF modulator
  <2>5. (id + 2 + ne) .. (id + 2 + ne + Cardinality(mids)) \subseteq id .. (id + 2 + ne + nm)
      BY <1>4, <2>2, <2>3
  <2> QED BY <1>4, <2>4, <2>5
<1> HIDE DEF effect, modulator
<1>7. IsFiniteSet(effects) /\ \A e \in effects : EffectIn(e, I)
  <2>1. ASSUME NEW e \in source.effects PROVE EffectIn([e EXCEPT !.id = effect[@]], I)
    <3>1. Has(e, EffectParts) /\ effect[e.id] \in I
        BY <1>5 DEF TrackIn, EffectIn, EffectIds
    <3> QED BY <3>1 DEF EffectIn, Has, EffectParts
  <2>2. effects = {fe[e] : e \in source.effects}
      OBVIOUS
  <2> HIDE DEF fe
  <2>3. IsFiniteSet({fe[e] : e \in source.effects})
      BY <1>4, ImageFinite
  <2> QED BY <2>1, <2>2, <2>3
<1>8. IsFiniteSet(modulators) /\ \A m \in modulators : ModulatorIn(m, I)
  <2>1. ASSUME NEW m \in source.modulators
        PROVE  ModulatorIn([m EXCEPT !.id = modulator[@],
                               !.source = IF m.trigger = "free" THEN @ ELSE id], I)
    <3>1. Has(m, ModulatorParts) /\ modulator[m.id] \in I
        BY <1>6 DEF TrackIn, ModulatorIn
    <3> QED BY <3>1 DEF ModulatorIn, Has, ModulatorParts
  <2>2. modulators = {fm[e] : e \in source.modulators}
      OBVIOUS
  <2> HIDE DEF fm
  <2>3. IsFiniteSet({fm[e] : e \in source.modulators})
      BY <1>4, ImageFinite
  <2> QED BY <2>1, <2>2, <2>3
<1>9. id \in I /\ id + 1 \in I /\ id + 2 + ne + nm \in I
  <2> HIDE DEF id, ne, nm
  <2> QED BY <1>4
<1> HIDE DEF effects, modulators, order
<1>10. TrackIn(track, I) /\ track.id = id
  <2> HIDE DEF id
  <2> QED BY <1>7, <1>8, <1>9 DEF TrackIn, Has, TrackParts, track
<1>11. ZoneIn(zone, I)
  <2> HIDE DEF id, ne, nm
  <2> QED BY <1>9 DEF ZoneIn, Has, ZoneParts, zone
<1>12. TracksIn(q.tracks, I)
    BY <1>3, <1>10 DEF PartsIn, TracksIn, TrackIds
<1>13. \A z \in q.key_zones : ZoneIn(z, I)
    BY <1>3, <1>11 DEF PartsIn
<1>14. PartsIn(q, I)
    BY <1>2, <1>12, <1>13, PartsStay DEF PartsIn
<1> QED BY <1>2, <1>14 DEF Makes

\* A track that is gone, with its zones and the modulators it moved.
LEMMA TrackGone ==
    ASSUME NEW p, IsProject(p), NEW I, PartsIn(p, I), NEW id, NEW q \in delete_channel(p, id)
    PROVE  Makes(p, q, {"tracks", "key_zones"}, I)
<1> DEFINE kept(t) == {m \in t.modulators : m.source # id}
           left(t) == [t EXCEPT !.modulators = kept(t)]
           tracks == {left(t) : t \in {x \in p.tracks : x.id # id}}
           zones == {zone \in p.key_zones : zone.instrument # TrackOf(p, id).instrument}
<1>1. /\ Touches(p, q, {"tracks", "key_zones"})
      /\ q.tracks = tracks /\ q.key_zones = zones
  <2> DEFINE ok == id \in TrackIds(p) /\ Cardinality(p.tracks) > 1
  <2>1. q \in Given(ok, [p EXCEPT !.tracks = tracks, !.key_zones = zones])
      BY DEF delete_channel
  <2> HIDE DEF tracks, zones, ok
  <2> QED BY <2>1 DEF Given, Touches, IsProject, Has, Parts
<1>2. ASSUME NEW t \in p.tracks PROVE TrackIn(left(t), I) /\ left(t).id = t.id
  <2>1. TrackIn(t, I)
      BY DEF PartsIn, TracksIn
  <2>2. IsFiniteSet(kept(t))
      BY <2>1, FS_Subset DEF TrackIn
  <2> QED BY <2>1, <2>2 DEF TrackIn, Has, TrackParts
<1> HIDE DEF left
<1>3. \A t \in q.tracks : TrackIn(t, I)
    BY <1>1, <1>2
<1>4. \A t \in q.tracks : \E x \in p.tracks : x.id = t.id /\ t = left(x)
    BY <1>1, <1>2
<1>5. \A t, u \in q.tracks : t.id = u.id => t = u
    BY <1>4 DEF PartsIn, TracksIn
<1>6. TracksIn(q.tracks, I)
    BY <1>3, <1>5 DEF TracksIn
<1>7. \A z \in q.key_zones : ZoneIn(z, I)
    BY <1>1 DEF PartsIn
<1>8. PartsIn(q, I)
    BY <1>1, <1>6, <1>7, PartsStay DEF PartsIn
<1> QED BY <1>1, <1>8 DEF Makes

----------------------------------------------------------------------------
(* Racks and key zones *)

\* A new rack.
LEMMA RackAdded ==
    ASSUME NEW p, IsProject(p), NEW I, PartsIn(p, I), Room(p, 0, I), NEW name,
           NEW q \in create_instrument_rack(p, name)
    PROVE  Makes(p, q, {"racks"}, I)
<1> DEFINE new == [id |-> NextId(p), name |-> name]
<1>1. Touches(p, q, {"racks"}) /\ q.racks = p.racks \cup {new}
  <2> DEFINE all == p.racks \cup {new}
             ok == Cardinality(p.racks) < RACK_LIMIT
  <2>1. q \in Given(ok, [p EXCEPT !.racks = all])
      BY DEF create_instrument_rack
  <2> HIDE DEF all, ok
  <2>2. Touches(p, q, {"racks"}) /\ q.racks = all
      BY <2>1, TouchRacks
  <2> QED BY <2>2 DEF all
<1>2. NextId(p) \in I
    BY DEF Room
<1>3. RackIn(new, I)
    BY <1>2 DEF RackIn, Has, RackParts
<1> HIDE DEF new
<1>4. \A r \in q.racks : RackIn(r, I)
    BY <1>1, <1>3 DEF PartsIn
<1>5. PartsIn(q, I)
    BY <1>1, <1>4, PartsStay DEF PartsIn
<1> QED BY <1>1, <1>5 DEF Makes

\* A rack that gets another name.
LEMMA RackNamed ==
    ASSUME NEW p, IsProject(p), NEW I, PartsIn(p, I), NEW id, NEW name,
           NEW q \in update_instrument_rack(p, id, name)
    PROVE  Makes(p, q, {"racks"}, I)
<1>1. /\ Touches(p, q, {"racks"})
      /\ q.racks = {IF r.id = id THEN [r EXCEPT !.name = name] ELSE r : r \in p.racks}
    BY TouchRacks DEF update_instrument_rack
<1>2. \A r \in p.racks : RackIn(r, I) /\ RackIn([r EXCEPT !.name = name], I)
    BY DEF PartsIn, RackIn, Has, RackParts
<1>3. \A r \in q.racks : RackIn(r, I)
    BY <1>1, <1>2
<1>4. PartsIn(q, I)
    BY <1>1, <1>3, PartsStay DEF PartsIn
<1> QED BY <1>1, <1>4 DEF Makes

\* A rack that is gone, with its zones.
LEMMA RackGone ==
    ASSUME NEW p, IsProject(p), NEW I, PartsIn(p, I), NEW id,
           NEW q \in delete_instrument_rack(p, id)
    PROVE  Makes(p, q, {"racks", "key_zones"}, I)
<1> DEFINE racks == {r \in p.racks : r.id # id}
           zones == {zone \in p.key_zones : zone.rack # id}
<1>1. /\ Touches(p, q, {"racks", "key_zones"})
      /\ q.racks = racks /\ q.key_zones = zones
  <2> DEFINE ok == id \in RackIds(p) /\ \A clip \in p.clips : clip.rack # id
  <2>1. q \in Given(ok, [p EXCEPT !.racks = racks, !.key_zones = zones])
      BY DEF delete_instrument_rack
  <2> HIDE DEF racks, zones, ok
  <2> QED BY <2>1 DEF Given, Touches, IsProject, Has, Parts
<1>2. (\A r \in q.racks : RackIn(r, I)) /\ (\A z \in q.key_zones : ZoneIn(z, I))
    BY <1>1 DEF PartsIn
<1>3. PartsIn(q, I)
    BY <1>1, <1>2, PartsStay DEF PartsIn
<1> QED BY <1>1, <1>3 DEF Makes

\* A new zone.
LEMMA ZoneAdded ==
    ASSUME NEW p, IsProject(p), NEW I, PartsIn(p, I), Room(p, 0, I), NEW rack, NEW instrument,
           NEW low, NEW high, NEW q \in create_key_zone(p, rack, instrument, low, high)
    PROVE  Makes(p, q, {"key_zones"}, I)
<1> DEFINE new == [id |-> NextId(p), rack |-> rack, instrument |-> instrument,
                   low |-> low, high |-> high]
<1>1. Touches(p, q, {"key_zones"}) /\ q.key_zones = p.key_zones \cup {new}
  <2> DEFINE all == p.key_zones \cup {new}
             ok == /\ rack \in RackIds(p) /\ instrument \in Instruments(p) /\ low <= high
                   /\ Cardinality(p.key_zones) < KEY_ZONE_LIMIT
  <2>1. q \in Given(ok, [p EXCEPT !.key_zones = all])
      BY DEF create_key_zone
  <2> HIDE DEF all, ok
  <2>2. Touches(p, q, {"key_zones"}) /\ q.key_zones = all
      BY <2>1, TouchZones
  <2> QED BY <2>2 DEF all
<1>2. NextId(p) \in I
    BY DEF Room
<1>3. ZoneIn(new, I)
    BY <1>2 DEF ZoneIn, Has, ZoneParts
<1> HIDE DEF new
<1>4. \A z \in q.key_zones : ZoneIn(z, I)
    BY <1>1, <1>3 DEF PartsIn
<1>5. PartsIn(q, I)
    BY <1>1, <1>4, PartsStay DEF PartsIn
<1> QED BY <1>1, <1>5 DEF Makes

\* A zone that leads elsewhere.
LEMMA ZoneChanged ==
    ASSUME NEW p, IsProject(p), NEW I, PartsIn(p, I), NEW id, NEW instrument, NEW low, NEW high,
           NEW q \in update_key_zone(p, id, instrument, low, high)
    PROVE  Makes(p, q, {"key_zones"}, I)
<1> DEFINE other(z) == [z EXCEPT !.instrument = instrument, !.low = low, !.high = high]
<1>1. /\ Touches(p, q, {"key_zones"})
      /\ q.key_zones = {IF z.id = id THEN other(z) ELSE z : z \in p.key_zones}
    BY TouchZones DEF update_key_zone
<1>2. \A z \in p.key_zones : ZoneIn(z, I) /\ ZoneIn(other(z), I)
    BY DEF PartsIn, ZoneIn, Has, ZoneParts
<1> HIDE DEF other
<1>3. \A z \in q.key_zones : ZoneIn(z, I)
    BY <1>1, <1>2
<1>4. PartsIn(q, I)
    BY <1>1, <1>3, PartsStay DEF PartsIn
<1> QED BY <1>1, <1>4 DEF Makes

\* A zone that is gone.
LEMMA ZoneGone ==
    ASSUME NEW p, IsProject(p), NEW I, PartsIn(p, I), NEW id, NEW q \in delete_key_zone(p, id)
    PROVE  Makes(p, q, {"key_zones"}, I)
<1>1. Touches(p, q, {"key_zones"}) /\ q.key_zones = {z \in p.key_zones : z.id # id}
    BY TouchZones DEF delete_key_zone
<1>2. \A z \in q.key_zones : ZoneIn(z, I)
    BY <1>1 DEF PartsIn
<1>3. PartsIn(q, I)
    BY <1>1, <1>2, PartsStay DEF PartsIn
<1> QED BY <1>1, <1>3 DEF Makes

----------------------------------------------------------------------------
(* Clips *)

\* The events of a clip that gets new ids from `first` on, and its own id, are among ids
\* that there is room for.
LEMMA EventsInRoom ==
    ASSUME NEW pattern \in Patterns, NEW first \in Nat, NEW I,
           first .. (first + NoteCount[pattern]) \subseteq I
    PROVE  EventIds(first, pattern) \subseteq I
<1>1. NoteCount[pattern] \in Nat
    BY EngineIsFinite
<1>2. first .. (first + NoteCount[pattern] - 1) \subseteq first .. (first + NoteCount[pattern])
    BY <1>1
<1> QED BY <1>2 DEF EventIds

\* A clip that a tool made.
LEMMA ClipMade ==
    ASSUME NEW id, NEW first \in Nat, NEW spec, spec.pattern \in Patterns, NEW I, id \in I,
           first .. (first + NoteCount[spec.pattern]) \subseteq I
    PROVE  ClipIn(NewClip(id, first, spec), I)
<1>1. EventIds(first, spec.pattern) \subseteq I
    BY EventsInRoom
<1> QED BY <1>1 DEF NewClip, ClipIn, Has, ClipParts

\* A clip that gets new ids.
LEMMA ClipRekeyed ==
    ASSUME NEW I, NEW J, NEW clip, ClipIn(clip, J), NEW id \in Nat,
           id .. (id + 1 + NoteCount[clip.pattern]) \subseteq I
    PROVE  ClipIn(rekey_clip(clip, id), I)
<1> DEFINE n == NoteCount[clip.pattern]
<1>1. clip.pattern \in Patterns /\ n \in Nat
    BY EngineIsFinite DEF ClipIn
<1>2. id \in I /\ (id + 1) .. (id + 1 + n) \subseteq I /\ id + 1 \in Nat
  <2> HIDE DEF n
  <2>1. id \in id .. (id + 1 + n) /\ (id + 1) .. (id + 1 + n) \subseteq id .. (id + 1 + n)
      BY <1>1
  <2> QED BY <2>1 DEF n
<1>3. EventIds(id + 1, clip.pattern) \subseteq I
    BY <1>1, <1>2, EventsInRoom
<1> QED BY <1>2, <1>3 DEF rekey_clip, ClipIn, Has, ClipParts

\* What is left of a clip is the clip but for its ends.
LEMMA SidesIn ==
    ASSUME NEW clip, NEW I, ClipIn(clip, I), NEW region
    PROVE  /\ \A c \in Left(clip, region) : ClipIn(c, I) /\ c.pattern = clip.pattern
           /\ \A c \in Right(clip, region) : ClipIn(c, I) /\ c.pattern = clip.pattern
BY DEF Left, Right, ClipIn, Has, ClipParts

\* A new clip.
LEMMA ClipAdded ==
    ASSUME NEW p, IsProject(p), NEW I, PartsIn(p, I), NEW spec, spec.pattern \in Patterns,
           Room(p, 1 + NoteCount[spec.pattern], I), NEW q \in create_midi_clip(p, spec)
    PROVE  Makes(p, q, {"clips"}, I)
<1> DEFINE new == NewClip(NextId(p), NextId(p) + 1, spec)
           n == NoteCount[spec.pattern]
<1>1. Touches(p, q, {"clips"}) /\ q.clips = p.clips \cup {new}
  <2> DEFINE all == p.clips \cup {new}
             ok == SpecAccepted(p, spec) /\ Cardinality(p.clips) < CLIP_LIMIT
  <2>1. q \in Given(ok, [p EXCEPT !.clips = all])
      BY DEF create_midi_clip
  <2> HIDE DEF all, ok
  <2>2. Touches(p, q, {"clips"}) /\ q.clips = all
      BY <2>1, TouchClips
  <2> QED BY <2>2 DEF all
<1>2. n \in Nat /\ NextId(p) \in Nat /\ NextId(p) .. (NextId(p) + (1 + n)) \subseteq I
    BY EngineIsFinite DEF Room
<1>3. NextId(p) \in I /\ NextId(p) + 1 \in Nat /\ (NextId(p) + 1) .. (NextId(p) + 1 + n) \subseteq I
  <2> HIDE DEF n
  <2>1. /\ NextId(p) \in NextId(p) .. (NextId(p) + (1 + n))
        /\ (NextId(p) + 1) .. (NextId(p) + 1 + n) \subseteq NextId(p) .. (NextId(p) + (1 + n))
      BY <1>2
  <2> QED BY <1>2, <2>1
<1>4. ClipIn(new, I)
    BY <1>3, ClipMade
<1> HIDE DEF new
<1>5. \A c \in q.clips : ClipIn(c, I)
    BY <1>1, <1>4 DEF PartsIn
<1>6. PartsIn(q, I)
    BY <1>1, <1>5, PartsStay DEF PartsIn
<1> QED BY <1>1, <1>6 DEF Makes

\* A clip that is taken out of the selected region.
LEMMA ClipGone ==
    ASSUME NEW p, IsProject(p), NEW I, PartsIn(p, I), NEW id \in ClipIds(p), NEW selected,
           Room(p, 1 + NoteCount[ClipOf(p, id).pattern], I),
           NEW q \in delete_midi_clip(p, id, selected)
    PROVE  Makes(p, q, {"clips"}, I)
<1> DEFINE clip == ClipOf(p, id)
           next == NextId(p)
           n == NoteCount[clip.pattern]
           left == Left(clip, selected)
           right == IF left = {} THEN Right(clip, selected)
                    ELSE {rekey_clip(c, next) : c \in Right(clip, selected)}
           all == (p.clips \ {clip}) \cup left \cup right
           ok == /\ Overlaps(clip, selected)
                 /\ Cardinality(p.clips) - 1 + Cardinality(left \cup right) <= CLIP_LIMIT
<1>1. q \in Given(ok, [p EXCEPT !.clips = all])
    BY DEF delete_midi_clip
<1> HIDE DEF all, ok
<1>2. Touches(p, q, {"clips"}) /\ q.clips = all
    BY <1>1, TouchClips
<1>3. clip \in p.clips /\ ClipIn(clip, I)
    BY DEF ClipIds, ClipOf, PartsIn
<1>4. next \in Nat /\ next .. (next + 1 + n) \subseteq I /\ n \in Nat
  <2>1. n \in Nat
      BY <1>3, EngineIsFinite DEF ClipIn
  <2>2. next \in Nat /\ next .. (next + (1 + n)) \subseteq I
      BY DEF Room
  <2> HIDE DEF n, next
  <2>3. next + (1 + n) = next + 1 + n
      BY <2>1, <2>2
  <2> QED BY <2>1, <2>2, <2>3
<1> HIDE DEF clip
<1>5. /\ \A c \in left : ClipIn(c, I)
      /\ \A c \in Right(clip, selected) : ClipIn(c, I) /\ c.pattern = clip.pattern
    BY <1>3, SidesIn
<1>6. \A c \in Right(clip, selected) : ClipIn(rekey_clip(c, next), I)
    BY <1>4, <1>5, ClipRekeyed
<1> HIDE DEF left
<1>7. \A c \in right : ClipIn(c, I)
    BY <1>5, <1>6
<1> HIDE DEF right
<1>8. \A c \in q.clips : ClipIn(c, I)
    BY <1>2, <1>5, <1>7 DEF PartsIn, all
<1>9. PartsIn(q, I)
    BY <1>2, <1>8, PartsStay DEF PartsIn
<1> QED BY <1>2, <1>9 DEF Makes

\* A clip that another one takes the place of.
LEMMA ClipReplaced ==
    ASSUME NEW p, IsProject(p), NEW I, PartsIn(p, I), NEW id \in ClipIds(p), NEW selected,
           NEW spec, spec.pattern \in Patterns,
           Room(p, NoteCount[spec.pattern] + 2 * (1 + NoteCount[ClipOf(p, id).pattern]), I),
           NEW q \in replace_midi_clip(p, id, spec, selected)
    PROVE  Makes(p, q, {"clips"}, I)
<1> DEFINE clip == ClipOf(p, id)
           next == NextId(p)
           n == NoteCount[clip.pattern]
           m == NoteCount[spec.pattern]
           first == next + m
           left == {rekey_clip(c, first) : c \in Left(clip, spec)}
           second == first + IF left = {} THEN 0 ELSE 1 + n
           right == {rekey_clip(c, second) : c \in Right(clip, spec)}
           new == NewClip(id, next, spec)
           all == (p.clips \ {clip}) \cup {new} \cup left \cup right
           ok == /\ SpecAccepted(p, spec)
                 /\ ~Before(spec.start, selected.start) /\ ~Before(selected.end, spec.end)
                 /\ Overlaps(clip, selected) /\ Overlaps(clip, spec)
                 /\ Cardinality(p.clips) + Cardinality(left \cup right) <= CLIP_LIMIT
<1>1. q \in Given(ok, [p EXCEPT !.clips = all])
    BY DEF replace_midi_clip
<1> HIDE DEF all, ok
<1>2. Touches(p, q, {"clips"}) /\ q.clips = all
    BY <1>1, TouchClips
<1>3. clip \in p.clips /\ ClipIn(clip, I) /\ id \in I
    BY DEF ClipIds, ClipOf, PartsIn, ClipIn
<1>4. /\ n \in Nat /\ m \in Nat /\ next \in Nat
      /\ next .. (next + (m + 2 * (1 + n))) \subseteq I
    BY <1>3, EngineIsFinite DEF ClipIn, Room
<1> HIDE DEF clip
<1>5. /\ \A c \in Left(clip, spec) : ClipIn(c, I) /\ c.pattern = clip.pattern
      /\ \A c \in Right(clip, spec) : ClipIn(c, I) /\ c.pattern = clip.pattern
    BY <1>3, SidesIn
<1>6. /\ first \in Nat /\ second \in Nat
      /\ next .. (next + m) \subseteq I
      /\ first .. (first + 1 + n) \subseteq I /\ second .. (second + 1 + n) \subseteq I
  <2> HIDE DEF n, m, next, left
  <2>1. first \in Nat /\ second \in Nat /\ second + 1 + n <= next + (m + 2 * (1 + n))
      BY <1>4
  <2>2. /\ next .. (next + m) \subseteq next .. (next + (m + 2 * (1 + n)))
        /\ first .. (first + 1 + n) \subseteq next .. (next + (m + 2 * (1 + n)))
        /\ second .. (second + 1 + n) \subseteq next .. (next + (m + 2 * (1 + n)))
      BY <1>4, <2>1
  <2> QED BY <1>4, <2>1, <2>2
<1> HIDE DEF first, second
<1>7. \A c \in left : ClipIn(c, I)
    BY <1>5, <1>6, ClipRekeyed
<1>8. \A c \in right : ClipIn(c, I)
    BY <1>5, <1>6, ClipRekeyed
<1>9. ClipIn(new, I)
    BY <1>3, <1>4, <1>6, ClipMade
<1> HIDE DEF left, right, new
<1>10. \A c \in q.clips : ClipIn(c, I)
    BY <1>2, <1>7, <1>8, <1>9 DEF PartsIn, all
<1>11. PartsIn(q, I)
    BY <1>2, <1>10, PartsStay DEF PartsIn
<1> QED BY <1>2, <1>11 DEF Makes

----------------------------------------------------------------------------
(* The timeline *)

\* Clips and edits that are cut or rescaled are the same ones.
LEMMA TimesChange ==
    ASSUME NEW I, NEW parts
    PROVE  /\ (\A c \in parts : ClipIn(c, I)) =>
                 /\ \A duration : \A c \in CutAt(parts, duration) : ClipIn(c, I)
                 /\ \A scale : \A c \in Rescaled(parts, scale) : ClipIn(c, I)
           /\ (\A e \in parts : EditIn(e, I)) =>
                 /\ \A duration : \A e \in CutAt(parts, duration) : EditIn(e, I)
                 /\ \A scale : \A e \in Rescaled(parts, scale) : EditIn(e, I)
<1>1. ASSUME NEW c, ClipIn(c, I), NEW start, NEW end
      PROVE  ClipIn([c EXCEPT !.end = end], I) /\ ClipIn([c EXCEPT !.start = start, !.end = end], I)
    BY <1>1 DEF ClipIn, Has, ClipParts
<1>2. ASSUME NEW e, EditIn(e, I), NEW start, NEW end
      PROVE  EditIn([e EXCEPT !.end = end], I) /\ EditIn([e EXCEPT !.start = start, !.end = end], I)
    BY <1>2 DEF EditIn, Has, EditParts
<1>3. ASSUME \A c \in parts : ClipIn(c, I), NEW duration
      PROVE  \A c \in CutAt(parts, duration) : ClipIn(c, I)
  <2>1. ASSUME NEW c \in parts
        PROVE  ClipIn([c EXCEPT !.end = Smaller(c.end, duration)], I)
      BY <1>1, <1>3
  <2>2. \A cut \in CutAt(parts, duration) : \E c \in parts :
           cut = [c EXCEPT !.end = Smaller(c.end, duration)]
      BY DEF CutAt
  <2> QED BY <2>1, <2>2
<1>4. ASSUME \A c \in parts : ClipIn(c, I), NEW scale
      PROVE  \A c \in Rescaled(parts, scale) : ClipIn(c, I)
  <2>1. ASSUME NEW c \in parts
        PROVE  ClipIn([c EXCEPT !.start = Times(c.start, scale),
                              !.end = Times(c.end, scale)], I)
      BY <1>1, <1>4
  <2>2. Rescaled(parts, scale) =
           {[c EXCEPT !.start = Times(c.start, scale), !.end = Times(c.end, scale)] :
              c \in parts}
      BY DEF Rescaled
  <2> QED BY <2>1, <2>2
<1>5. ASSUME \A e \in parts : EditIn(e, I), NEW duration
      PROVE  \A e \in CutAt(parts, duration) : EditIn(e, I)
  <2>1. ASSUME NEW e \in parts
        PROVE  EditIn([e EXCEPT !.end = Smaller(e.end, duration)], I)
      BY <1>2, <1>5
  <2>2. \A cut \in CutAt(parts, duration) : \E e \in parts :
           cut = [e EXCEPT !.end = Smaller(e.end, duration)]
      BY DEF CutAt
  <2> QED BY <2>1, <2>2
<1>6. ASSUME \A e \in parts : EditIn(e, I), NEW scale
      PROVE  \A e \in Rescaled(parts, scale) : EditIn(e, I)
  <2>1. ASSUME NEW e \in parts
        PROVE  EditIn([e EXCEPT !.start = Times(e.start, scale),
                              !.end = Times(e.end, scale)], I)
      BY <1>2, <1>6
  <2>2. Rescaled(parts, scale) =
           {[e EXCEPT !.start = Times(e.start, scale), !.end = Times(e.end, scale)] :
              e \in parts}
      BY DEF Rescaled
  <2> QED BY <2>1, <2>2
<1> QED BY <1>3, <1>4, <1>5, <1>6

\* A new duration.
LEMMA DurationSet ==
    ASSUME NEW p, IsProject(p), NEW I, PartsIn(p, I), NEW duration,
           NEW q \in set_duration(p, duration)
    PROVE  Makes(p, q, {"duration", "clips", "edits"}, I) /\ q.duration = duration
<1> DEFINE clips == CutAt(p.clips, duration)
           edits == CutAt(p.edits, duration)
           ok == Leq(MinimumDuration, duration) /\ Leq(duration, MaximumDuration)
<1>1. q \in Given(ok, [p EXCEPT !.duration = duration, !.clips = clips, !.edits = edits])
    BY DEF set_duration
<1>2. (\A c \in clips : ClipIn(c, I)) /\ (\A e \in edits : EditIn(e, I))
    BY TimesChange DEF PartsIn
<1> HIDE DEF clips, edits, ok
<1>3. /\ Touches(p, q, {"duration", "clips", "edits"})
      /\ q.duration = duration /\ q.clips = clips /\ q.edits = edits
    BY <1>1 DEF Given, Touches, IsProject, Has, Parts
<1>4. PartsIn(q, I)
    BY <1>2, <1>3, PartsStay DEF PartsIn
<1> QED BY <1>3, <1>4 DEF Makes

\* A new tempo.
LEMMA TempoSet ==
    ASSUME NEW p, IsProject(p), NEW I, PartsIn(p, I), NEW bpm, NEW q \in set_tempo(p, bpm)
    PROVE  /\ Makes(p, q, {"bpm", "duration", "edits", "clips"}, I)
           /\ q.bpm = bpm /\ bpm \in 60..180
<1> DEFINE scale == Ratio(p.bpm, bpm)
           required == Times(LatestEnd(p.clips \cup p.edits), scale)
           duration == Larger(p.duration, required)
           edits == Rescaled(p.edits, scale)
           moved(c) == [c EXCEPT !.source_start = Times(@, scale)]
           clips == {moved(c) : c \in Rescaled(p.clips, scale)}
           ok == bpm \in 60..180 /\ Leq(required, MaximumDuration)
<1>1. q \in Given(ok, [p EXCEPT !.bpm = bpm, !.duration = duration, !.edits = edits,
                                !.clips = clips])
    BY DEF set_tempo
<1> HIDE DEF scale
<1>2. (\A e \in edits : EditIn(e, I)) /\ \A c \in Rescaled(p.clips, scale) : ClipIn(c, I)
    BY TimesChange DEF PartsIn
<1>3. \A c \in clips : ClipIn(c, I)
    BY <1>2 DEF ClipIn, Has, ClipParts
<1> HIDE DEF duration, clips, edits
<1>4. /\ Touches(p, q, {"bpm", "duration", "edits", "clips"})
      /\ q.clips = clips /\ q.edits = edits /\ q.bpm = bpm /\ bpm \in 60..180
    BY <1>1 DEF Given, Touches, IsProject, Has, Parts
<1>5. PartsIn(q, I)
    BY <1>2, <1>3, <1>4, PartsStay DEF PartsIn
<1> QED BY <1>4, <1>5 DEF Makes

----------------------------------------------------------------------------
(* Ids *)

\* A project as a whole: its parts have ids, which are numbers.
Sound(p) ==
    /\ IsProject(p) /\ p.version \in Nat /\ p.bpm \in Nat /\ p.tracks # {}
    /\ \E n \in Nat : PartsIn(p, 0..n)

\* Where the ids of a project are.
LEMMA IdsAreThere ==
    ASSUME NEW p
    PROVE  /\ \A t \in p.tracks : t.id \in Ids(p) /\ t.instrument \in Ids(p)
           /\ \A t \in p.tracks : \A e \in t.effects : e.id \in Ids(p)
           /\ \A t \in p.tracks : \A m \in t.modulators : m.id \in Ids(p)
           /\ \A r \in p.racks : r.id \in Ids(p)
           /\ \A z \in p.key_zones : z.id \in Ids(p)
           /\ \A c \in p.clips : c.id \in Ids(p) /\ c.events \subseteq Ids(p)
           /\ \A e \in p.edits : e.id \in Ids(p)
           /\ \A I : (/\ \A t \in p.tracks : t.id \in I /\ t.instrument \in I
                      /\ \A t \in p.tracks : \A e \in t.effects : e.id \in I
                      /\ \A t \in p.tracks : \A m \in t.modulators : m.id \in I
                      /\ \A r \in p.racks : r.id \in I
                      /\ \A z \in p.key_zones : z.id \in I
                      /\ \A c \in p.clips : c.id \in I /\ c.events \subseteq I
                      /\ \A e \in p.edits : e.id \in I) => Ids(p) \subseteq I
<1> DEFINE A == {track.id : track \in p.tracks}
           B == {track.instrument : track \in p.tracks}
           C == UNION {EffectIds(track) : track \in p.tracks}
           D == UNION {{modulator.id : modulator \in track.modulators} : track \in p.tracks}
           E == {rack.id : rack \in p.racks}
           F == {zone.id : zone \in p.key_zones}
           G == {clip.id : clip \in p.clips}
           H == UNION {clip.events : clip \in p.clips}
           J == {edit.id : edit \in p.edits}
<1>1. Ids(p) = A \cup B \cup C \cup D \cup E \cup F \cup G \cup H \cup J
    BY DEF Ids
<1>2. \A x : x \in A <=> \E t \in p.tracks : x = t.id
    OBVIOUS
<1>3. \A x : x \in B <=> \E t \in p.tracks : x = t.instrument
    OBVIOUS
<1>4. \A x : x \in C <=> \E t \in p.tracks : \E e \in t.effects : x = e.id
    BY DEF EffectIds
<1>5. \A x : x \in D <=> \E t \in p.tracks : \E m \in t.modulators : x = m.id
    OBVIOUS
<1>6. \A x : x \in E <=> \E r \in p.racks : x = r.id
    OBVIOUS
<1>7. \A x : x \in F <=> \E z \in p.key_zones : x = z.id
    OBVIOUS
<1>8. \A x : x \in G <=> \E c \in p.clips : x = c.id
    OBVIOUS
<1>9. \A x : x \in H <=> \E c \in p.clips : x \in c.events
    OBVIOUS
<1>10. \A x : x \in J <=> \E e \in p.edits : x = e.id
    OBVIOUS
<1> HIDE DEF A, B, C, D, E, F, G, H, J
<1> QED BY <1>1, <1>2, <1>3, <1>4, <1>5, <1>6, <1>7, <1>8, <1>9, <1>10

\* The ids of a project are those of its parts.
LEMMA IdsOfParts ==
    ASSUME NEW p, NEW I, PartsIn(p, I)
    PROVE  Ids(p) \subseteq I /\ PartsIn(p, Ids(p))
<1>1. \A t \in p.tracks : TrackIn(t, I)
    BY DEF PartsIn, TracksIn
<1>2. Ids(p) \subseteq I
  <2>1. \A t \in p.tracks : t.id \in I /\ t.instrument \in I
      BY <1>1 DEF TrackIn
  <2>2. \A t \in p.tracks : \A e \in t.effects : e.id \in I
      BY <1>1 DEF TrackIn, EffectIn
  <2>3. \A t \in p.tracks : \A m \in t.modulators : m.id \in I
      BY <1>1 DEF TrackIn, ModulatorIn
  <2>4. /\ \A r \in p.racks : r.id \in I
        /\ \A z \in p.key_zones : z.id \in I
        /\ \A c \in p.clips : c.id \in I /\ c.events \subseteq I
        /\ \A e \in p.edits : e.id \in I
      BY DEF PartsIn, RackIn, ZoneIn, ClipIn, EditIn
  <2> QED BY <2>1, <2>2, <2>3, <2>4, IdsAreThere
<1>3. \A t \in p.tracks : TrackIn(t, Ids(p))
    BY <1>1, IdsAreThere DEF TrackIn, EffectIn, ModulatorIn
<1>4. TracksIn(p.tracks, Ids(p))
    BY <1>3 DEF PartsIn, TracksIn
<1>5. \A r \in p.racks : RackIn(r, Ids(p))
    BY IdsAreThere DEF PartsIn, RackIn
<1>6. \A z \in p.key_zones : ZoneIn(z, Ids(p))
    BY IdsAreThere DEF PartsIn, ZoneIn
<1>7. \A c \in p.clips : ClipIn(c, Ids(p))
    BY IdsAreThere DEF PartsIn, ClipIn
<1>8. \A e \in p.edits : EditIn(e, Ids(p))
    BY IdsAreThere DEF PartsIn, EditIn
<1> QED BY <1>2, <1>4, <1>5, <1>6, <1>7, <1>8 DEF PartsIn

\* A set of numbers that has a bound has a largest one.
LEMMA LargestNumber ==
    ASSUME NEW n \in Nat, NEW S, S \subseteq 0..n, S # {}
    PROVE  Max(S) \in S /\ \A x \in S : x <= Max(S)
<1> DEFINE T == {m \in Nat : \A x \in S : x <= m}
<1>1. n \in T
    OBVIOUS
<1>2. PICK m \in T : \A k \in T : m <= k
    BY <1>1, LeastNumber
<1>3. m \in S
  <2> SUFFICES ASSUME m \notin S PROVE FALSE
      OBVIOUS
  <2>1. PICK x \in S : TRUE
      OBVIOUS
  <2>2. m # 0
      BY <2>1
  <2>3. m - 1 \in T
      BY <2>2
  <2> QED BY <1>2, <2>3
<1>4. \A x \in S : m >= x
    OBVIOUS
<1> HIDE DEF T
<1>5. \E x \in S : \A y \in S : x >= y
    BY <1>3, <1>4
<1>6. Max(S) \in S /\ \A y \in S : Max(S) >= y
    BY <1>5 DEF Max
<1>7. \A y \in S : y \in Nat
    OBVIOUS
<1> DEFINE top == Max(S)
<1>8. top \in S /\ \A y \in S : top >= y
    BY <1>6
<1> HIDE DEF top
<1>9. top \in S /\ \A y \in S : y <= top
    BY <1>7, <1>8
<1> QED BY <1>9 DEF top

\* The next id is above all the ids of a project.
LEMMA NextIdIsNew ==
    ASSUME NEW p, Sound(p)
    PROVE  /\ NextId(p) \in Nat /\ NextId(p) = highest_id(p) + 1 /\ highest_id(p) \in Ids(p)
           /\ Ids(p) \subseteq 0..highest_id(p) /\ highest_id(p) \in Nat
           /\ NextId(p) \notin Ids(p) /\ NextId(p) \notin TrackIds(p)
           /\ PartsIn(p, Ids(p))
<1>1. PICK n \in Nat : PartsIn(p, 0..n)
    BY DEF Sound
<1>2. Ids(p) \subseteq 0..n /\ PartsIn(p, Ids(p))
    BY <1>1, IdsOfParts
<1>3. Ids(p) # {} /\ TrackIds(p) \subseteq Ids(p)
    BY IdsAreThere DEF Sound, TrackIds
<1>4. highest_id(p) \in Ids(p) /\ \A x \in Ids(p) : x <= highest_id(p)
    BY <1>2, <1>3, LargestNumber DEF highest_id
<1>5. highest_id(p) \in Nat /\ \A x \in Ids(p) : x \in 0..highest_id(p)
    BY <1>2, <1>4
<1>6. NextId(p) = highest_id(p) + 1 /\ NextId(p) \notin Ids(p)
    BY <1>5 DEF NextId
<1> QED BY <1>2, <1>3, <1>4, <1>5, <1>6

\* A project made of another one: its ids are among those, or above them.
Edited(p, q) ==
    /\ IsProject(q) /\ q.version \in Nat /\ q.bpm \in Nat
    /\ \E n \in Nat : PartsIn(q, Ids(p) \cup (NextId(p) .. n))

\* The ids there are with k new ones.
Ample(p, k) == Ids(p) \cup (NextId(p) .. (NextId(p) + k))

\* There is room for k ids in them.
LEMMA AmpleRoom ==
    ASSUME NEW p, Sound(p), NEW k \in Nat
    PROVE  Room(p, k, Ample(p, k)) /\ PartsIn(p, Ample(p, k))
<1>1. NextId(p) \in Nat /\ PartsIn(p, Ids(p))
    BY NextIdIsNew
<1>2. PartsIn(p, Ample(p, k))
    BY <1>1, MoreIds DEF Ample
<1> QED BY <1>1, <1>2 DEF Room, Ample

\* What a mutation makes of a project is made of it.
LEMMA MakesEdited ==
    ASSUME NEW p, Sound(p), NEW q, NEW parts, NEW k \in Nat, Makes(p, q, parts, Ample(p, k)),
           "bpm" \notin parts \/ q.bpm \in Nat
    PROVE  Edited(p, q) /\ ("duration" \notin parts => q.duration = p.duration)
<1>1. NextId(p) + k \in Nat
    BY NextIdIsNew
<1>2. q.version \in Nat /\ q.bpm \in Nat /\ IsProject(q)
    BY DEF Sound, Makes, Touches, Parts
<1>3. "duration" \notin parts => q.duration = p.duration
    BY DEF Makes, Touches, Parts
<1>4. PartsIn(q, Ids(p) \cup (NextId(p) .. (NextId(p) + k)))
    BY DEF Makes, Ample
<1> QED BY <1>1, <1>2, <1>3, <1>4 DEF Edited

\* What is made of a project with tracks, and still has tracks, is a project as a whole.
THEOREM EditedIsSound ==
    ASSUME NEW p, Sound(p), NEW q, Edited(p, q), q.tracks # {}
    PROVE  Sound(q) /\ \A x \in Ids(q) : x \in Ids(p) \/ x > highest_id(p)
<1>1. PICK n \in Nat : PartsIn(q, Ids(p) \cup (NextId(p) .. n))
    BY DEF Edited
<1>2. /\ NextId(p) \in Nat /\ NextId(p) = highest_id(p) + 1 /\ highest_id(p) \in Nat
      /\ Ids(p) \subseteq 0..highest_id(p)
    BY NextIdIsNew
<1>3. Ids(q) \subseteq Ids(p) \cup (NextId(p) .. n)
    BY <1>1, IdsOfParts
<1>4. \A x \in Ids(q) : x \in Ids(p) \/ x > highest_id(p)
    BY <1>2, <1>3
<1>5. Ids(p) \cup (NextId(p) .. n) \subseteq 0..(highest_id(p) + n) /\ highest_id(p) + n \in Nat
    BY <1>2
<1>6. PartsIn(q, 0..(highest_id(p) + n))
    BY <1>1, <1>5, MoreIds
<1> QED BY <1>4, <1>5, <1>6 DEF Sound, Edited

----------------------------------------------------------------------------
(* Commits *)

\* What a commit makes of the project p and the graph g of a session: the music of g, the
\* log of p, and an entry with an id that is newer than all that is left of either.
Commits(p, g, q, newest) ==
    /\ IsProject(q) /\ q.version = p.version + 1
    /\ \A part \in Parts \ {"version", "edits"} : q[part] = g[part]
    /\ newest \in Nat
    /\ \E edit \in q.edits : edit.id = newest
    /\ \A edit \in p.edits : edit.id < newest
    /\ PartsIn(q, Ids(g) \cup Ids(p) \cup {newest})
    /\ \A x \in Ids(q) : x <= newest

\* A graph that replaces the project's.
THEOREM GraphReplaced ==
    ASSUME NEW p, Sound(p), NEW g, Sound(g), NEW region, NEW q \in replace_graph(p, g, region)
    PROVE  Within(g, region) /\ \E newest \in Nat : Commits(p, g, q, newest)
<1> DEFINE scale == Ratio(p.bpm, g.bpm)
           log == IF g.bpm = p.bpm THEN p.edits ELSE Rescaled(p.edits, scale)
           taken == [g EXCEPT !.edits = log, !.version = p.version]
           newest == NextId(taken)
           edit == [id |-> newest, start |-> region.start, end |-> region.end]
           more == log \cup {edit}
           kept == {e \in more : Cardinality({later \in more : later.id > e.id}) < EDIT_LOG_LIMIT}
           ok == Within(g, region)
<1>1. q \in Given(ok, compact_edit_log([taken EXCEPT !.edits = more]))
    BY DEF replace_graph, validate_edit_for_duration
<1>2. PartsIn(p, Ids(p)) /\ PartsIn(g, Ids(g)) /\ IsProject(p) /\ IsProject(g)
    BY NextIdIsNew DEF Sound
<1>3. (\A e \in log : EditIn(e, Ids(p))) /\ \A e \in p.edits : \E x \in log : x.id = e.id
  <2>1. \A e \in p.edits : EditIn(e, Ids(p))
      BY <1>2 DEF PartsIn
  <2>2. CASE g.bpm = p.bpm
      BY <2>1, <2>2
  <2>3. CASE g.bpm # p.bpm
    <3>1. log = Rescaled(p.edits, scale)
        BY <2>3
    <3> HIDE DEF log, scale
    <3>2. \A e \in log : EditIn(e, Ids(p))
        BY <2>1, <3>1, TimesChange
    <3>3. ASSUME NEW e \in p.edits PROVE \E x \in log : x.id = e.id
      <4> DEFINE moved == [e EXCEPT !.start = Times(@, scale), !.end = Times(@, scale)]
      <4>1. moved \in log
          BY <3>1 DEF Rescaled
      <4>2. moved.id = e.id
          BY <2>1 DEF EditIn, Has, EditParts
      <4> QED BY <4>1, <4>2
    <3> QED BY <3>2, <3>3
  <2> QED BY <2>2, <2>3
<1> HIDE DEF log
<1>4. /\ IsProject(taken) /\ taken.edits = log /\ taken.version = p.version
      /\ \A part \in Parts \ {"version", "edits"} : taken[part] = g[part]
    BY <1>2 DEF IsProject, Has, Parts
<1> HIDE DEF taken
<1> DEFINE I == Ids(g) \cup Ids(p)
<1>5. PartsIn(taken, I)
  <2>1. PartsIn(g, I) /\ \A e \in log : EditIn(e, I)
      BY <1>2, <1>3, MoreIds
  <2> HIDE DEF I
  <2>2. taken.tracks = g.tracks /\ taken.racks = g.racks /\ taken.key_zones = g.key_zones
        /\ taken.clips = g.clips
      BY <1>4 DEF Parts
  <2> QED BY <1>4, <2>1, <2>2 DEF PartsIn
<1>6. Sound(taken)
  <2>1. /\ highest_id(p) \in Nat /\ Ids(p) \subseteq 0..highest_id(p)
        /\ highest_id(g) \in Nat /\ Ids(g) \subseteq 0..highest_id(g)
      BY NextIdIsNew
  <2> DEFINE n == highest_id(p) + highest_id(g)
  <2>2. n \in Nat /\ I \subseteq 0..n
      BY <2>1
  <2> HIDE DEF I, n
  <2>3. PartsIn(taken, 0..n)
      BY <1>5, <2>2, MoreIds
  <2>4. taken.version \in Nat /\ taken.bpm \in Nat /\ taken.tracks # {}
      BY <1>4 DEF Sound, Parts
  <2> QED BY <1>4, <2>2, <2>3, <2>4 DEF Sound
<1>7. /\ newest \in Nat /\ newest = highest_id(taken) + 1 /\ highest_id(taken) \in Nat
      /\ Ids(taken) \subseteq 0..highest_id(taken) /\ PartsIn(taken, Ids(taken))
    BY <1>6, NextIdIsNew
<1> HIDE DEF newest
<1>8. \A e \in log : e.id \in Nat /\ e.id < newest
  <2>1. \A e \in log : e.id \in Ids(taken)
      BY <1>4, IdsAreThere
  <2> QED BY <1>7, <2>1
<1>9. edit \in kept
  <2> DEFINE later == {e \in more : e.id > edit.id}
  <2>1. \A e \in more : ~(e.id > edit.id)
      BY <1>7, <1>8
  <2>2. later = {}
      BY <2>1
  <2>3. Cardinality(later) = 0
      BY <2>2, FS_EmptySet
  <2>4. EDIT_LOG_LIMIT \in Nat \ {0}
      BY LimitAssumption
  <2> HIDE DEF later
  <2>5. Cardinality(later) < EDIT_LOG_LIMIT
      BY <2>3, <2>4
  <2> QED BY <2>5 DEF later
<1>10. EditIn(edit, {newest}) /\ edit.id = newest
    BY DEF EditIn, Has, EditParts
<1> HIDE DEF edit
<1>11. kept \subseteq log \cup {edit}
    OBVIOUS
<1> HIDE DEF more
<1>12. compact_edit_log([taken EXCEPT !.edits = more]) = [taken EXCEPT !.edits = kept]
    BY <1>4 DEF compact_edit_log, IsProject, Has, Parts
<1> HIDE DEF kept, ok
<1>13. /\ ok /\ IsProject(q) /\ q.version = p.version + 1 /\ q.edits = kept
       /\ \A part \in Parts \ {"version", "edits"} : q[part] = g[part]
    BY <1>1, <1>4, <1>12 DEF Given, IsProject, Has, Parts
<1>14. \A e \in p.edits : e.id < newest
    BY <1>3, <1>8
<1>15. \A J : PartsIn(taken, J) /\ newest \in J => PartsIn(q, J)
  <2> TAKE J
  <2> HAVE PartsIn(taken, J) /\ newest \in J
  <2>1. EditIn(edit, J)
      BY <1>10, MoreIds
  <2>2. \A e \in q.edits : EditIn(e, J)
      BY <1>4, <1>11, <1>13, <2>1 DEF PartsIn
  <2>3. q.tracks = taken.tracks /\ q.racks = taken.racks /\ q.key_zones = taken.key_zones
        /\ q.clips = taken.clips
      BY <1>4, <1>13 DEF Parts
  <2> QED BY <2>2, <2>3 DEF PartsIn
<1>16. PartsIn(q, I \cup {newest})
  <2> HIDE DEF I
  <2>1. PartsIn(taken, I \cup {newest})
      BY <1>5, MoreIds
  <2> QED BY <1>15, <2>1
<1>17. \A x \in Ids(q) : x <= newest
  <2>1. PartsIn(taken, Ids(taken) \cup {newest})
      BY <1>7, MoreIds
  <2>2. PartsIn(q, Ids(taken) \cup {newest})
      BY <1>15, <2>1
  <2>3. Ids(q) \subseteq Ids(taken) \cup {newest}
      BY <2>2, IdsOfParts
  <2> QED BY <1>7, <2>3
<1>18. Commits(p, g, q, newest)
    BY <1>7, <1>9, <1>10, <1>13, <1>14, <1>16, <1>17 DEF Commits
<1> QED BY <1>7, <1>13, <1>18 DEF ok

\* A commit leaves a project as a whole.
LEMMA CommitIsSound ==
    ASSUME NEW p, Sound(p), NEW g, Sound(g), NEW q, NEW newest, Commits(p, g, q, newest)
    PROVE  Sound(q)
<1>1. /\ highest_id(p) \in Nat /\ Ids(p) \subseteq 0..highest_id(p)
      /\ highest_id(g) \in Nat /\ Ids(g) \subseteq 0..highest_id(g)
    BY NextIdIsNew
<1> DEFINE n == highest_id(p) + highest_id(g) + newest
<1>2. n \in Nat /\ Ids(g) \cup Ids(p) \cup {newest} \subseteq 0..n
    BY <1>1 DEF Commits
<1> HIDE DEF n
<1>3. PartsIn(q, 0..n)
    BY <1>2, MoreIds DEF Commits
<1> QED BY <1>2, <1>3 DEF Sound, Commits, Parts

\* A new project, at any version and tempo, is a project as a whole.
LEMMA NewIsSound ==
    ASSUME NEW q, IsProject(q), q.version \in Nat, q.bpm \in Nat,
           \A part \in Parts \ {"version", "bpm"} : q[part] = InitialProject[part]
    PROVE  Sound(q) /\ 1 \in TrackIds(q)
<1>1. /\ q.tracks = {empty_track(1, 101)} /\ q.racks = {[id |-> 4, name |-> "new"]}
      /\ q.key_zones = {} /\ q.clips = {} /\ q.edits = {}
    BY DEF InitialProject, Parts
<1>2. TrackIn(empty_track(1, 101), 0..101) /\ empty_track(1, 101).id = 1
  <2>1. IsFiniteSet({})
      BY FS_EmptySet
  <2> QED BY <2>1 DEF empty_track, TrackIn, Has, TrackParts
<1>3. RackIn([id |-> 4, name |-> "new"], 0..101)
    BY DEF RackIn, Has, RackParts
<1>4. PartsIn(q, 0..101)
    BY <1>1, <1>2, <1>3 DEF PartsIn, TracksIn
<1>5. 1 \in TrackIds(q)
    BY <1>1, <1>2 DEF TrackIds
<1> QED BY <1>1, <1>4, <1>5 DEF Sound

----------------------------------------------------------------------------
(* What the tools make *)

\* A project made of another one, as long as it.
Keeps(p, q) == Edited(p, q) /\ q.duration = p.duration

\* A mutation of parts other than tempo and duration.
LEMMA MakesKeeps ==
    ASSUME NEW p, Sound(p), NEW q, NEW parts, NEW k \in Nat, Makes(p, q, parts, Ample(p, k)),
           "bpm" \notin parts, "duration" \notin parts
    PROVE  Keeps(p, q)
BY MakesEdited DEF Keeps

\* A mutation of tracks.
LEMMA ShapesKeeps ==
    ASSUME NEW p, Sound(p), NEW q, NEW k \in Nat, Shapes(p, q, Ample(p, k))
    PROVE  Keeps(p, q) /\ TrackIds(p) \subseteq TrackIds(q)
<1>1. Makes(p, q, {"tracks"}, Ample(p, k)) /\ TrackIds(p) \subseteq TrackIds(q)
    BY DEF Shapes
<1>2. "bpm" \notin {"tracks"} /\ "duration" \notin {"tracks"}
    OBVIOUS
<1> QED BY <1>1, <1>2, MakesKeeps

\* A project that a sound tool made.
Shaped(p, q) == Keeps(p, q) /\ TrackIds(p) \subseteq TrackIds(q)

\* The ids of a native parameter's project are those it had.
LEMMA NativeKeepsIds ==
    ASSUME NEW p, Sound(p), NEW id, NEW q \in configure_native(p, id)
    PROVE  Sound(q) /\ Ids(q) = Ids(p) /\ NextId(q) = NextId(p)
<1>1. PartsIn(p, Ids(p)) /\ IsProject(p)
    BY NextIdIsNew DEF Sound
<1>2. Shapes(p, q, Ids(p))
    BY <1>1, NativeShapes
<1>3. Ids(q) \subseteq Ids(p) /\ PartsIn(q, Ids(q))
    BY <1>2, IdsOfParts DEF Shapes, Makes
<1> DEFINE f == [t \in p.tracks |-> [t EXCEPT !.tuned = TRUE]]
<1>4. /\ Touches(p, q, {"tracks"})
      /\ q.tracks = {IF t.id = id THEN [t EXCEPT !.tuned = TRUE] ELSE t : t \in p.tracks}
  <2>1. IsProject(p)
      BY <1>1
  <2> QED BY <2>1, TouchTracks DEF configure_native, Configured, OnTrack
<1>5. q.tracks = {IF t.id = id THEN f[t] ELSE t : t \in p.tracks}
    BY <1>4
<1>6. ASSUME NEW t \in p.tracks PROVE TrackIn(t, Ids(q))
  <2>1. TrackIn(t, Ids(p))
      BY <1>1 DEF PartsIn, TracksIn
  <2>2. f[t].id = t.id /\ f[t].instrument = t.instrument /\ f[t].effects = t.effects
        /\ f[t].modulators = t.modulators
      BY <2>1 DEF TrackIn, Has, TrackParts
  <2> DEFINE u == IF t.id = id THEN f[t] ELSE t
  <2>3. u \in q.tracks
      BY <1>5
  <2>4. TrackIn(u, Ids(q))
      BY <1>3, <2>3 DEF PartsIn, TracksIn
  <2>5. u.id = t.id /\ u.instrument = t.instrument /\ u.effects = t.effects
        /\ u.modulators = t.modulators
      BY <2>2
  <2> HIDE DEF u
  <2> QED BY <2>1, <2>4, <2>5 DEF TrackIn
<1> HIDE DEF f
<1>7. PartsIn(p, Ids(q))
  <2>1. q.racks = p.racks /\ q.key_zones = p.key_zones /\ q.clips = p.clips /\ q.edits = p.edits
      BY <1>4 DEF Touches, Parts
  <2> QED BY <1>1, <1>3, <1>6, <2>1 DEF PartsIn, TracksIn
<1>8. Ids(q) = Ids(p)
    BY <1>3, <1>7, IdsOfParts
<1>9. NextId(q) = NextId(p)
    BY <1>8 DEF NextId, highest_id
<1>10. Sound(q)
  <2>1. PICK n \in Nat : PartsIn(p, 0..n)
      BY DEF Sound
  <2>2. PartsIn(q, 0..n)
      BY <1>1, <2>1, NativeShapes DEF Shapes, Makes
  <2>3. q.version \in Nat /\ q.bpm \in Nat /\ IsProject(q)
      BY <1>4 DEF Touches, Sound, Parts
  <2>4. q.tracks # {}
    <3>1. PICK t \in p.tracks : TRUE
        BY DEF Sound
    <3> DEFINE u == IF t.id = id THEN f[t] ELSE t
    <3>2. u \in q.tracks
        BY <1>5
    <3> QED BY <3>2
  <2> QED BY <2>2, <2>3, <2>4 DEF Sound
<1> QED BY <1>8, <1>9, <1>10

\* Products and quotients of numbers are numbers, and a number is not above itself.
LEMMA TimesTyped ==
    ASSUME NEW x, NEW y, x.man \in Int, y.man \in Int
    PROVE  Times(x, y).man \in Int
<1>1. Half \in Nat \ {0} /\ One24 \in Nat \ {0} /\ Half24 \in Nat \ {0}
    BY DEF Half, One24, Half24
<1>2. \A man \in Int : \A exp, rest, unit : Round(man, exp, rest, unit).man \in Int
    BY <1>1 DEF Round
<1> DEFINE middle == (x.man \div Half) * (y.man % Half) + (x.man % Half) * (y.man \div Half)
           tail == (x.man % Half) * (y.man % Half) + (middle % Half) * Half
           low == tail % One24
           high == (x.man \div Half) * (y.man \div Half) + middle \div Half + tail \div One24
           exp == x.exp + y.exp
<1>3. middle \in Int
    BY <1>1
<1> HIDE DEF middle
<1>4. tail \in Int
    BY <1>1, <1>3
<1> HIDE DEF tail
<1>5. low \in Int /\ high \in Int
    BY <1>1, <1>3, <1>4
<1>6. Times(x, y) = IF x.man = 0 \/ y.man = 0 THEN Zero
                    ELSE IF high >= Half24 THEN Round(high, exp + 24, low, One24)
                    ELSE Round(2 * high + low \div Half24, exp + 23, low % Half24, Half24)
    BY DEF Times, middle, tail
<1> HIDE DEF low, high, exp
<1>7. high \in Int /\ 2 * high + low \div Half24 \in Int
    BY <1>1, <1>5
<1>8. Zero.man \in Int
    BY DEF Zero
<1> QED BY <1>2, <1>6, <1>7, <1>8

\* The same of a ratio.
LEMMA RatioTyped ==
    ASSUME NEW a \in Nat, NEW b \in 60..180
    PROVE  Ratio(a, b).man \in Int
<1>1. Half \in Nat \ {0} /\ One24 \in Nat \ {0} /\ Half24 \in Nat \ {0}
    BY DEF Half, One24, Half24
<1>2. \A man \in Int : \A exp, rest, unit : Round(man, exp, rest, unit).man \in Int
    BY <1>1 DEF Round
<1> DEFINE k == CASE a >= 2 * b -> 22
               [] a >= b /\ a < 2 * b -> 23
               [] 2 * a >= b /\ a < b -> 24
               [] OTHER -> 25
           power == 2^(k - 12)
           high == a * power
           low == (high % b) * Half
<1>3. k \in 22..25
    OBVIOUS
<1>4. power \in Nat
  <2> HIDE DEF k
  <2>1. k = 22 \/ k = 23 \/ k = 24 \/ k = 25
      BY <1>3
  <2>2. k = 22 => power = 2^10
      OBVIOUS
  <2>3. k = 23 => power = 2^11
      OBVIOUS
  <2>4. k = 24 => power = 2^12
      OBVIOUS
  <2>5. k = 25 => power = 2^13
      OBVIOUS
  <2> QED BY <2>1, <2>2, <2>3, <2>4, <2>5
<1> HIDE DEF power
<1>5. high \in Int
    BY <1>4
<1>6. Ratio(a, b) = Round((high \div b) * Half + low \div b, -k, low % b, b)
    BY DEF Ratio, power
<1> HIDE DEF high, k
<1>7. low \in Int
    BY <1>1, <1>5
<1> HIDE DEF low
<1>8. (high \div b) * Half + low \div b \in Int
    BY <1>1, <1>5, <1>7
<1> QED BY <1>2, <1>6, <1>8

\* Tools that give no ids, or one, or two.
LEMMA ArrangementKeeps ==
    ASSUME NEW p, Sound(p)
    PROVE  /\ \A q \in create_instrument_rack(p, "named") : Keeps(p, q)
           /\ \A id : \A q \in update_instrument_rack(p, id, "named") : Keeps(p, q)
           /\ \A id : \A q \in delete_instrument_rack(p, id) : Keeps(p, q)
           /\ \A q \in add_described_channel(p, "named") : Keeps(p, q)
           /\ \A id : \A q \in delete_channel(p, id) : Keeps(p, q)
           /\ \A id : \A q \in set_track_identity(p, id, "named") : Keeps(p, q)
           /\ \A id, muted : \A q \in set_mix(p, id, muted) : Keeps(p, q)
           /\ \A r, i, low, high : \A q \in create_key_zone(p, r, i, low, high) :
                  Keeps(p, q) /\ TrackIds(q) = TrackIds(p)
           /\ \A z, i, low, high : \A q \in update_key_zone(p, z, i, low, high) : Keeps(p, q)
           /\ \A z : \A q \in delete_key_zone(p, z) : Keeps(p, q)
<1> DEFINE I == Ample(p, 0)
<1>1. /\ 0 \in Nat /\ 1 \in Nat /\ IsProject(p)
      /\ Room(p, 0, I) /\ PartsIn(p, I)
      /\ Room(p, 1, Ample(p, 1)) /\ PartsIn(p, Ample(p, 1))
    BY AmpleRoom DEF Sound
<1> HIDE DEF I
<1>2. /\ \A q : Makes(p, q, {"racks"}, I) => Keeps(p, q)
      /\ \A q : Makes(p, q, {"racks", "key_zones"}, I) => Keeps(p, q)
      /\ \A q : Makes(p, q, {"tracks"}, Ample(p, 1)) => Keeps(p, q)
      /\ \A q : Makes(p, q, {"tracks", "key_zones"}, I) => Keeps(p, q)
      /\ \A q : Shapes(p, q, I) => Keeps(p, q)
      /\ \A q : Makes(p, q, {"key_zones"}, I) => Keeps(p, q)
  <2> USE DEF I
  <2>1. \A q : Makes(p, q, {"racks"}, I) => Keeps(p, q)
      BY <1>1, MakesKeeps
  <2>2. \A q : Makes(p, q, {"racks", "key_zones"}, I) => Keeps(p, q)
      BY <1>1, MakesKeeps
  <2>3. \A q : Makes(p, q, {"tracks"}, Ample(p, 1)) => Keeps(p, q)
      BY <1>1, MakesKeeps
  <2>4. \A q : Makes(p, q, {"tracks", "key_zones"}, I) => Keeps(p, q)
      BY <1>1, MakesKeeps
  <2>5. \A q : Shapes(p, q, I) => Keeps(p, q)
      BY <1>1, ShapesKeeps
  <2>6. \A q : Makes(p, q, {"key_zones"}, I) => Keeps(p, q)
      BY <1>1, MakesKeeps
  <2> QED BY <2>1, <2>2, <2>3, <2>4, <2>5, <2>6
<1>3. \A q \in create_instrument_rack(p, "named") : Keeps(p, q)
    BY <1>1, <1>2, RackAdded
<1>4. \A id : \A q \in update_instrument_rack(p, id, "named") : Keeps(p, q)
    BY <1>1, <1>2, RackNamed
<1>5. \A id : \A q \in delete_instrument_rack(p, id) : Keeps(p, q)
    BY <1>1, <1>2, RackGone
<1>6. \A q \in add_described_channel(p, "named") : Keeps(p, q)
  <2>1. NextId(p) \notin TrackIds(p)
      BY NextIdIsNew
  <2> QED BY <1>1, <1>2, <2>1, TrackAdded
<1>7. \A id : \A q \in delete_channel(p, id) : Keeps(p, q)
    BY <1>1, <1>2, TrackGone
<1>8. \A id : \A q \in set_track_identity(p, id, "named") : Keeps(p, q)
    BY <1>1, <1>2, IdentityShapes
<1>9. \A id, muted : \A q \in set_mix(p, id, muted) : Keeps(p, q)
    BY <1>1, <1>2, MixShapes
<1>10. ASSUME NEW r, NEW i, NEW low, NEW high, NEW q \in create_key_zone(p, r, i, low, high)
       PROVE  Keeps(p, q) /\ TrackIds(q) = TrackIds(p)
  <2>1. Makes(p, q, {"key_zones"}, I)
      BY <1>1, ZoneAdded
  <2>2. q.tracks = p.tracks
      BY <2>1 DEF Makes, Touches, Parts
  <2> QED BY <1>2, <2>1, <2>2 DEF TrackIds
<1>11. \A z, i, low, high : \A q \in update_key_zone(p, z, i, low, high) : Keeps(p, q)
    BY <1>1, <1>2, ZoneChanged
<1>12. \A z : \A q \in delete_key_zone(p, z) : Keeps(p, q)
    BY <1>1, <1>2, ZoneGone
<1> QED BY <1>3, <1>4, <1>5, <1>6, <1>7, <1>8, <1>9, <1>10, <1>11, <1>12

\* The tools for clips.
LEMMA ClipsKeep ==
    ASSUME NEW p, Sound(p), NEW region
    PROVE  /\ \A spec : spec.pattern \in Patterns =>
                 \A q \in create_midi_clip(p, spec) : Keeps(p, q)
           /\ \A id, spec : id \in ClipIds(p) /\ spec.pattern \in Patterns =>
                 \A q \in replace_midi_clip(p, id, spec, region) : Keeps(p, q)
           /\ \A id : id \in ClipIds(p) =>
                 \A q \in delete_midi_clip(p, id, region) : Keeps(p, q)
<1>1. IsProject(p)
    BY DEF Sound
<1>2. ASSUME NEW id \in ClipIds(p) PROVE NoteCount[ClipOf(p, id).pattern] \in Nat
  <2>1. PartsIn(p, Ids(p))
      BY NextIdIsNew
  <2>2. ClipOf(p, id) \in p.clips
      BY DEF ClipIds, ClipOf
  <2>3. ClipIn(ClipOf(p, id), Ids(p))
      BY <2>1, <2>2 DEF PartsIn
  <2> QED BY <2>3, EngineIsFinite DEF ClipIn
<1>3. \A q, k : k \in Nat /\ Makes(p, q, {"clips"}, Ample(p, k)) => Keeps(p, q)
    BY MakesKeeps
<1>4. ASSUME NEW spec, spec.pattern \in Patterns, NEW q \in create_midi_clip(p, spec)
      PROVE  Keeps(p, q)
  <2> DEFINE k == 1 + NoteCount[spec.pattern]
  <2>1. k \in Nat
      BY <1>4, EngineIsFinite
  <2>2. Room(p, k, Ample(p, k)) /\ PartsIn(p, Ample(p, k))
      BY <2>1, AmpleRoom
  <2>3. Makes(p, q, {"clips"}, Ample(p, k))
      BY <1>1, <1>4, <2>2, ClipAdded
  <2> QED BY <1>3, <2>1, <2>3
<1>5. ASSUME NEW id \in ClipIds(p), NEW spec, spec.pattern \in Patterns,
             NEW q \in replace_midi_clip(p, id, spec, region)
      PROVE  Keeps(p, q)
  <2> DEFINE k == NoteCount[spec.pattern] + 2 * (1 + NoteCount[ClipOf(p, id).pattern])
  <2>1. k \in Nat
      BY <1>2, <1>5, EngineIsFinite
  <2>2. Room(p, k, Ample(p, k)) /\ PartsIn(p, Ample(p, k))
      BY <2>1, AmpleRoom
  <2>3. Makes(p, q, {"clips"}, Ample(p, k))
      BY <1>1, <1>5, <2>2, ClipReplaced
  <2> QED BY <1>3, <2>1, <2>3
<1>6. ASSUME NEW id \in ClipIds(p), NEW q \in delete_midi_clip(p, id, region)
      PROVE  Keeps(p, q)
  <2> DEFINE k == 1 + NoteCount[ClipOf(p, id).pattern]
  <2>1. k \in Nat
      BY <1>2
  <2>2. Room(p, k, Ample(p, k)) /\ PartsIn(p, Ample(p, k))
      BY <2>1, AmpleRoom
  <2>3. Makes(p, q, {"clips"}, Ample(p, k))
      BY <1>1, <1>6, <2>2, ClipGone
  <2> QED BY <1>3, <2>1, <2>3
<1> QED BY <1>4, <1>5, <1>6

\* The sound of a slot becomes a track.
LEMMA CommitKeeps ==
    ASSUME NEW p, Sound(p), NEW sound, Sound(sound), 1 \in TrackIds(sound),
           NEW r, NEW low, NEW high,
           NEW q \in add_configured_channel(p, r, TrackOf(sound, 1), "named", low, high)
    PROVE  Keeps(p, q)
<1> DEFINE source == TrackOf(sound, 1)
           k == 2 + Cardinality(source.effects) + Cardinality(source.modulators)
<1>1. TrackIn(source, Ids(sound))
  <2>1. source \in sound.tracks
      BY DEF TrackIds, TrackOf
  <2>2. PartsIn(sound, Ids(sound))
      BY NextIdIsNew
  <2> QED BY <2>1, <2>2 DEF PartsIn, TracksIn
<1> HIDE DEF source
<1>2. k \in Nat
    BY <1>1, FS_CardinalityType DEF TrackIn
<1>3. Room(p, k, Ample(p, k)) /\ PartsIn(p, Ample(p, k))
    BY <1>2, AmpleRoom
<1>4. IsProject(p) /\ NextId(p) \notin TrackIds(p)
    BY NextIdIsNew DEF Sound
<1>5. Makes(p, q, {"tracks", "key_zones"}, Ample(p, k))
    BY <1>1, <1>3, <1>4, SoundAdded DEF source
<1> QED BY <1>2, <1>5, MakesKeeps
----------------------------------------------------------------------------
(* Clips and zones are told apart by their ids *)

\* Where neither is touched.
LEMMA ApartStays ==
    ASSUME NEW p, Apart(p), NEW q, NEW parts, Touches(p, q, parts),
           "clips" \notin parts, "key_zones" \notin parts
    PROVE  Apart(q) /\ q.clips = p.clips /\ q.key_zones = p.key_zones
BY DEF Touches, Parts, Apart

\* Where there are fewer.
LEMMA FewerApart ==
    ASSUME NEW p, Apart(p), NEW q, q.clips \subseteq p.clips, q.key_zones \subseteq p.key_zones
    PROVE  Apart(q)
BY DEF Apart

\* The ids of clips and zones are below the next one.
LEMMA BelowNext ==
    ASSUME NEW p, Sound(p)
    PROVE  /\ NextId(p) \in Nat
           /\ \A c \in p.clips : c.id \in Nat /\ c.id < NextId(p) /\ Has(c, ClipParts)
                                 /\ c.pattern \in Patterns
           /\ \A z \in p.key_zones : z.id \in Nat /\ z.id < NextId(p) /\ Has(z, ZoneParts)
           /\ \A t \in p.tracks : t.instrument \in Nat /\ t.instrument < NextId(p)
<1>1. /\ NextId(p) \in Nat /\ highest_id(p) \in Nat /\ NextId(p) = highest_id(p) + 1
      /\ Ids(p) \subseteq 0..highest_id(p) /\ PartsIn(p, Ids(p))
    BY NextIdIsNew
<1>2. \A x \in Ids(p) : x \in Nat /\ x < NextId(p)
    BY <1>1
<1>3. \A t \in p.tracks : t.instrument \in Ids(p)
    BY <1>1 DEF PartsIn, TracksIn, TrackIn
<1> QED BY <1>1, <1>2, <1>3 DEF PartsIn, ClipIn, ZoneIn

\* A new zone.
LEMMA ZoneAddedApart ==
    ASSUME NEW p, Sound(p), Apart(p), NEW rack, NEW instrument, NEW low, NEW high,
           NEW q \in create_key_zone(p, rack, instrument, low, high)
    PROVE  /\ Apart(q) /\ q.tracks = p.tracks /\ q.clips = p.clips
           /\ \E zone : zone.instrument = instrument /\ q.key_zones = p.key_zones \cup {zone}
<1> DEFINE zone == [id |-> NextId(p), rack |-> rack, instrument |-> instrument,
                    low |-> low, high |-> high]
           all == p.key_zones \cup {zone}
           ok == /\ rack \in RackIds(p) /\ instrument \in Instruments(p) /\ low <= high
                 /\ Cardinality(p.key_zones) < KEY_ZONE_LIMIT
<1>1. q \in Given(ok, [p EXCEPT !.key_zones = all])
    BY DEF create_key_zone
<1>2. zone.id = NextId(p) /\ zone.instrument = instrument
    OBVIOUS
<1> HIDE DEF zone, ok
<1>3. Touches(p, q, {"key_zones"}) /\ q.key_zones = all
  <2> HIDE DEF all
  <2> QED BY <1>1, TouchZones DEF Sound
<1>4. q.tracks = p.tracks /\ q.clips = p.clips
    BY <1>3 DEF Touches, Parts
<1>5. \A z \in p.key_zones : z.id # NextId(p)
    BY BelowNext
<1>6. Apart(q)
    BY <1>2, <1>3, <1>4, <1>5 DEF Apart
<1> QED BY <1>2, <1>3, <1>4, <1>6

\* A zone that leads elsewhere.
LEMMA ZoneChangedApart ==
    ASSUME NEW p, Sound(p), Apart(p), NEW id, NEW instrument, NEW low, NEW high,
           NEW q \in update_key_zone(p, id, instrument, low, high)
    PROVE  /\ Apart(q) /\ q.tracks = p.tracks /\ q.clips = p.clips
           /\ \A z \in p.key_zones : z \in q.key_zones \/ z = ZoneOf(p, id)
           /\ \A z \in q.key_zones : z \in p.key_zones \/ z.instrument = instrument
<1> DEFINE moved(z) == [z EXCEPT !.instrument = instrument, !.low = low, !.high = high]
           all == {IF z.id = id THEN moved(z) ELSE z : z \in p.key_zones}
           ok == id \in ZoneIds(p) /\ instrument \in Instruments(p) /\ low <= high
<1>1. q \in Given(ok, [p EXCEPT !.key_zones = all])
    BY DEF update_key_zone
<1>2. \A z \in p.key_zones : moved(z).id = z.id /\ moved(z).instrument = instrument
  <2>1. \A z \in p.key_zones : Has(z, ZoneParts)
      BY BelowNext
  <2> QED BY <2>1 DEF Has, ZoneParts
<1> HIDE DEF moved, ok
<1>3. Touches(p, q, {"key_zones"}) /\ q.key_zones = all
  <2> HIDE DEF all
  <2> QED BY <1>1, TouchZones DEF Sound
<1>4. q.tracks = p.tracks /\ q.clips = p.clips
    BY <1>3 DEF Touches, Parts
<1>5. \A z \in q.key_zones :
        \E x \in p.key_zones : x.id = z.id /\ z = IF x.id = id THEN moved(x) ELSE x
    BY <1>2, <1>3
<1>6. Apart(q)
    BY <1>4, <1>5 DEF Apart
<1>7. \A z \in q.key_zones : z \in p.key_zones \/ z.instrument = instrument
    BY <1>2, <1>5
<1>8. \A z \in p.key_zones : z.id = id => z = ZoneOf(p, id)
    BY DEF ZoneOf, Apart
<1>9. \A z \in p.key_zones : z.id # id => z \in q.key_zones
    BY <1>3
<1> QED BY <1>4, <1>6, <1>7, <1>8, <1>9

\* A zone that is gone.
LEMMA ZoneGoneApart ==
    ASSUME NEW p, Sound(p), Apart(p), NEW id, NEW q \in delete_key_zone(p, id)
    PROVE  /\ Apart(q) /\ q.tracks = p.tracks /\ q.clips = p.clips
           /\ \A z \in p.key_zones : z \in q.key_zones \/ z = ZoneOf(p, id)
           /\ q.key_zones \subseteq p.key_zones
<1> DEFINE left == {z \in p.key_zones : z.id # id}
           ok == id \in ZoneIds(p)
<1>1. q \in Given(ok, [p EXCEPT !.key_zones = left])
    BY DEF delete_key_zone
<1> HIDE DEF ok
<1>2. Touches(p, q, {"key_zones"}) /\ q.key_zones = left
  <2> HIDE DEF left
  <2> QED BY <1>1, TouchZones DEF Sound
<1>3. q.tracks = p.tracks /\ q.clips = p.clips
    BY <1>2 DEF Touches, Parts
<1>4. \A z \in p.key_zones : z.id = id => z = ZoneOf(p, id)
    BY DEF ZoneOf, Apart
<1>5. Apart(q)
    BY <1>2, <1>3 DEF Apart
<1> QED BY <1>2, <1>3, <1>4, <1>5

\* A track or a rack that is gone with its zones.
LEMMA GoneApart ==
    ASSUME NEW p, Sound(p), Apart(p)
    PROVE  /\ \A id : \A q \in delete_channel(p, id) : Apart(q)
           /\ \A id : \A q \in delete_instrument_rack(p, id) : Apart(q)
<1>1. ASSUME NEW id, NEW q \in delete_channel(p, id) PROVE Apart(q)
  <2> DEFINE tracks == {[t EXCEPT !.modulators = {m \in @ : m.source # id}]
                          : t \in {x \in p.tracks : x.id # id}}
             zones == {zone \in p.key_zones : zone.instrument # TrackOf(p, id).instrument}
             ok == id \in TrackIds(p) /\ Cardinality(p.tracks) > 1
  <2>1. q \in Given(ok, [p EXCEPT !.tracks = tracks, !.key_zones = zones])
      BY DEF delete_channel
  <2>2. zones \subseteq p.key_zones
      OBVIOUS
  <2> HIDE DEF tracks, zones, ok
  <2>3. q.clips = p.clips /\ q.key_zones = zones
      BY <2>1 DEF Given, Sound, IsProject, Has, Parts
  <2> QED BY <2>2, <2>3, FewerApart
<1>2. ASSUME NEW id, NEW q \in delete_instrument_rack(p, id) PROVE Apart(q)
  <2> DEFINE racks == {r \in p.racks : r.id # id}
             zones == {zone \in p.key_zones : zone.rack # id}
             ok == id \in RackIds(p) /\ \A clip \in p.clips : clip.rack # id
  <2>1. q \in Given(ok, [p EXCEPT !.racks = racks, !.key_zones = zones])
      BY DEF delete_instrument_rack
  <2>2. zones \subseteq p.key_zones
      OBVIOUS
  <2> HIDE DEF racks, zones, ok
  <2>3. q.clips = p.clips /\ q.key_zones = zones
      BY <2>1 DEF Given, Sound, IsProject, Has, Parts
  <2> QED BY <2>2, <2>3, FewerApart
<1> QED BY <1>1, <1>2

\* The sound of a slot brings a track and a zone that leads to it.
LEMMA SoundAddedApart ==
    ASSUME NEW p, Sound(p), Apart(p), NEW source, NEW J, TrackIn(source, J),
           NEW rack, NEW name, NEW low, NEW high,
           NEW q \in add_configured_channel(p, rack, source, name, low, high)
    PROVE  /\ Apart(q) /\ q.clips = p.clips /\ p.tracks \subseteq q.tracks
           /\ \E zone : /\ \A t \in p.tracks : t.instrument # zone.instrument
                        /\ q.key_zones = p.key_zones \cup {zone}
<1> DEFINE id == NextId(p)
           ne == Cardinality(source.effects)
           nm == Cardinality(source.modulators)
           effect == Numbered(EffectIds(source), id + 2)
           modulator == Numbered({m.id : m \in source.modulators}, id + 2 + ne)
           track == [source EXCEPT
            !.id = id, !.instrument = id + 1, !.name = name,
            !.effects = {[e EXCEPT !.id = effect[@]] : e \in source.effects},
            !.effect_order = [i \in DOMAIN @ |-> effect[@[i]]],
            !.modulators = {[m EXCEPT !.id = modulator[@],
                                      !.source = IF m.trigger = "free" THEN @ ELSE id]
                            : m \in source.modulators}]
           zone == [id |-> id + 2 + ne + nm, rack |-> rack, instrument |-> id + 1,
                    low |-> low, high |-> high]
           ok == /\ rack \in RackIds(p) /\ low <= high
                 /\ Cardinality(p.tracks) < TRACK_LIMIT
                 /\ Cardinality(p.key_zones) < KEY_ZONE_LIMIT
<1>1. q \in Given(ok, [p EXCEPT !.tracks = p.tracks \cup {track},
                                !.key_zones = p.key_zones \cup {zone}])
    BY DEF add_configured_channel
<1>2. zone.id = id + 2 + ne + nm /\ zone.instrument = id + 1
    OBVIOUS
<1>3. ne \in Nat /\ nm \in Nat
    BY FS_CardinalityType DEF TrackIn
<1> HIDE DEF ok, track, zone, ne, nm, id
<1>4. /\ q.tracks = p.tracks \cup {track} /\ q.key_zones = p.key_zones \cup {zone}
      /\ q.clips = p.clips
    BY <1>1 DEF Given, Sound, IsProject, Has, Parts
<1>5. /\ id \in Nat /\ \A z \in p.key_zones : z.id \in Nat /\ z.id < id
      /\ \A t \in p.tracks : t.instrument \in Nat /\ t.instrument < id
    BY BelowNext DEF id
<1>6. /\ \A z \in p.key_zones : z.id # zone.id
      /\ \A t \in p.tracks : t.instrument # zone.instrument
    BY <1>2, <1>3, <1>5
<1>7. Apart(q)
    BY <1>4, <1>6 DEF Apart
<1> QED BY <1>4, <1>6, <1>7
\* A new clip.
LEMMA ClipAddedApart ==
    ASSUME NEW p, Sound(p), Apart(p), NEW spec, NEW q \in create_midi_clip(p, spec)
    PROVE  /\ Apart(q) /\ q.tracks = p.tracks /\ q.key_zones = p.key_zones
           /\ \E clip : clip.id = NextId(p) /\ q.clips = p.clips \cup {clip}
           /\ NextId(p) \notin ClipIds(p)
<1> DEFINE clip == NewClip(NextId(p), NextId(p) + 1, spec)
           all == p.clips \cup {clip}
           ok == SpecAccepted(p, spec) /\ Cardinality(p.clips) < CLIP_LIMIT
<1>1. q \in Given(ok, [p EXCEPT !.clips = all])
    BY DEF create_midi_clip
<1>2. clip.id = NextId(p)
    BY DEF NewClip
<1> HIDE DEF clip, ok
<1>3. Touches(p, q, {"clips"}) /\ q.clips = all
  <2> HIDE DEF all
  <2> QED BY <1>1, TouchClips DEF Sound
<1>4. q.tracks = p.tracks /\ q.key_zones = p.key_zones
    BY <1>3 DEF Touches, Parts
<1>5. \A c \in p.clips : c.id # NextId(p)
    BY BelowNext
<1>6. Apart(q)
    BY <1>2, <1>3, <1>4, <1>5 DEF Apart
<1>7. NextId(p) \notin ClipIds(p)
    BY <1>5 DEF ClipIds
<1> QED BY <1>2, <1>3, <1>4, <1>6, <1>7

\* A clip that has its pattern and its rack from another one.
Copies(c, clip) == c.pattern = clip.pattern /\ c.rack = clip.rack

\* At most one clip is left on either side of a region; with a new id or not it plays what it
\* played.
LEMMA SidesCopy ==
    ASSUME NEW clip, Has(clip, ClipParts), NEW region
    PROVE  /\ \A c, d \in Left(clip, region) : c = d
           /\ \A c, d \in Right(clip, region) : c = d
           /\ \A c \in Left(clip, region) \cup Right(clip, region) :
                 /\ c.id = clip.id /\ Copies(c, clip)
                 /\ \A id : rekey_clip(c, id).id = id /\ Copies(rekey_clip(c, id), clip)
<1>1. /\ \A c, d \in Left(clip, region) : c = d
      /\ \A c, d \in Right(clip, region) : c = d
    BY DEF Left, Right
<1>2. \A c \in Left(clip, region) \cup Right(clip, region) :
        Has(c, ClipParts) /\ c.id = clip.id /\ Copies(c, clip)
    BY DEF Left, Right, Has, ClipParts, Copies
<1>3. ASSUME NEW c, Has(c, ClipParts), Copies(c, clip), NEW id
      PROVE  rekey_clip(c, id).id = id /\ Copies(rekey_clip(c, id), clip)
  <2> DEFINE events == EventIds(id + 1, c.pattern)
  <2>1. rekey_clip(c, id) = [c EXCEPT !.id = id, !.events = events]
      BY DEF rekey_clip
  <2> HIDE DEF events
  <2> QED BY <1>3, <2>1 DEF Has, ClipParts, Copies
<1> QED BY <1>1, <1>2, <1>3

\* A clip that is taken out of the selected region.
LEMMA ClipGoneApart ==
    ASSUME NEW p, Sound(p), Apart(p), NEW id \in ClipIds(p), NEW selected,
           NEW q \in delete_midi_clip(p, id, selected)
    PROVE  /\ Apart(q) /\ q.tracks = p.tracks /\ q.key_zones = p.key_zones
           /\ \A c \in p.clips : c \in q.clips \/ c = ClipOf(p, id)
           /\ \A c \in q.clips : c \in p.clips \/ Copies(c, ClipOf(p, id))
<1> DEFINE clip == ClipOf(p, id)
           left == Left(clip, selected)
           right == IF left = {} THEN Right(clip, selected)
                    ELSE {rekey_clip(c, NextId(p)) : c \in Right(clip, selected)}
           all == (p.clips \ {clip}) \cup left \cup right
           ok == /\ Overlaps(clip, selected)
                 /\ Cardinality(p.clips) - 1 + Cardinality(left \cup right) <= CLIP_LIMIT
<1>1. q \in Given(ok, [p EXCEPT !.clips = all])
    BY DEF delete_midi_clip
<1>2. clip \in p.clips /\ clip.id = id
    BY DEF ClipIds, ClipOf
<1>3. Has(clip, ClipParts) /\ \A c \in p.clips : c.id # NextId(p)
    BY <1>2, BelowNext
<1> HIDE DEF ok, clip
<1>4. /\ \A c \in left : c.id = clip.id /\ Copies(c, clip) /\ \A d \in left : c = d
      /\ \A c \in right : /\ Copies(c, clip) /\ \A d \in right : c = d
                          /\ c.id = IF left = {} THEN clip.id ELSE NextId(p)
    BY <1>3, SidesCopy
<1> HIDE DEF left, right
<1>5. Touches(p, q, {"clips"}) /\ q.clips = all
  <2> HIDE DEF all
  <2> QED BY <1>1, TouchClips DEF Sound
<1>6. q.tracks = p.tracks /\ q.key_zones = p.key_zones
    BY <1>5 DEF Touches, Parts
<1>7. \A c \in p.clips \ {clip} : c.id # clip.id
    BY <1>2 DEF Apart
<1>8. \A c, d \in q.clips : c.id = d.id => c = d
  <2> SUFFICES ASSUME NEW c \in q.clips, NEW d \in q.clips, c.id = d.id PROVE c = d
      OBVIOUS
  <2>1. CASE c \in p.clips \ {clip} /\ d \in p.clips \ {clip}
      BY <2>1 DEF Apart
  <2>2. CASE c \in left /\ d \in left
      BY <1>4, <2>2
  <2>3. CASE c \in right /\ d \in right
      BY <1>4, <2>3
  <2>4. CASE (c \in left /\ d \in right) \/ (d \in left /\ c \in right)
    <3>1. clip.id # NextId(p)
        BY <1>2, <1>3
    <3> QED BY <1>4, <2>4, <3>1
  <2>5. CASE c \in p.clips \ {clip} /\ d \in left \cup right
      BY <1>3, <1>4, <1>7, <2>5
  <2>6. CASE d \in p.clips \ {clip} /\ c \in left \cup right
      BY <1>3, <1>4, <1>7, <2>6
  <2>7. /\ c \in p.clips \ {clip} \/ c \in left \/ c \in right
        /\ d \in p.clips \ {clip} \/ d \in left \/ d \in right
      BY <1>5
  <2> QED BY <2>1, <2>2, <2>3, <2>4, <2>5, <2>6, <2>7
<1>9. Apart(q)
    BY <1>6, <1>8 DEF Apart
<1>10. \A c \in q.clips : c \in p.clips \/ Copies(c, clip)
    BY <1>4, <1>5
<1>11. \A c \in p.clips : c \in q.clips \/ c = clip
    BY <1>5
<1> QED BY <1>6, <1>9, <1>10, <1>11 DEF clip

\* A clip that another one takes the place of.
LEMMA ClipReplacedApart ==
    ASSUME NEW p, Sound(p), Apart(p), NEW id \in ClipIds(p), NEW selected,
           NEW spec, spec.pattern \in Patterns,
           NEW q \in replace_midi_clip(p, id, spec, selected)
    PROVE  /\ Apart(q) /\ q.tracks = p.tracks /\ q.key_zones = p.key_zones
           /\ \A c \in p.clips : c \in q.clips \/ c = ClipOf(p, id)
           /\ \A c \in q.clips : c \in p.clips \/ Copies(c, ClipOf(p, id)) \/ c = ClipOf(q, id)
<1> DEFINE clip == ClipOf(p, id)
           events == NextId(p)
           first == events + NoteCount[spec.pattern]
           left == {rekey_clip(c, first) : c \in Left(clip, spec)}
           second == first + IF left = {} THEN 0 ELSE 1 + NoteCount[clip.pattern]
           right == {rekey_clip(c, second) : c \in Right(clip, spec)}
           new == NewClip(id, events, spec)
           all == (p.clips \ {clip}) \cup {new} \cup left \cup right
           ok == /\ SpecAccepted(p, spec)
                 /\ ~Before(spec.start, selected.start) /\ ~Before(selected.end, spec.end)
                 /\ Overlaps(clip, selected) /\ Overlaps(clip, spec)
                 /\ Cardinality(p.clips) + Cardinality(left \cup right) <= CLIP_LIMIT
<1>1. q \in Given(ok, [p EXCEPT !.clips = all])
    BY DEF replace_midi_clip
<1>2. clip \in p.clips /\ clip.id = id /\ new.id = id
    BY DEF ClipIds, ClipOf, NewClip
<1>3. /\ Has(clip, ClipParts) /\ events \in Nat /\ clip.pattern \in Patterns
      /\ \A c \in p.clips : c.id \in Nat /\ c.id < events
    BY <1>2, BelowNext
<1> HIDE DEF ok, clip, new, events
<1>4. /\ \A c \in left : c.id = first /\ Copies(c, clip) /\ \A d \in left : c = d
      /\ \A c \in right : c.id = second /\ Copies(c, clip) /\ \A d \in right : c = d
  <2> HIDE DEF first, second
  <2> QED BY <1>3, SidesCopy
<1>5. /\ first \in Nat /\ second \in Nat /\ first >= events /\ second >= events
      /\ left # {} => second > first
  <2>1. NoteCount[spec.pattern] \in Nat /\ NoteCount[clip.pattern] \in Nat
      BY <1>3, EngineIsFinite
  <2> HIDE DEF left
  <2> QED BY <1>3, <2>1
<1> HIDE DEF left, right, first, second
<1>6. Touches(p, q, {"clips"}) /\ q.clips = all
  <2> HIDE DEF all
  <2> QED BY <1>1, TouchClips DEF Sound
<1>7. q.tracks = p.tracks /\ q.key_zones = p.key_zones
    BY <1>6 DEF Touches, Parts
<1>8. \A c \in p.clips \ {clip} : c.id # id
    BY <1>2 DEF Apart
<1>9. /\ \A c \in (p.clips \ {clip}) \cup {new} : c.id # first /\ c.id # second
      /\ left # {} => first # second
    BY <1>2, <1>3, <1>5
<1>10. \A c, d \in q.clips : c.id = d.id => c = d
  <2> SUFFICES ASSUME NEW c \in q.clips, NEW d \in q.clips, c.id = d.id PROVE c = d
      OBVIOUS
  <2>1. CASE c \in p.clips \ {clip} /\ d \in p.clips \ {clip}
      BY <2>1 DEF Apart
  <2>2. CASE (c = new /\ d \in p.clips \ {clip}) \/ (d = new /\ c \in p.clips \ {clip})
      BY <1>2, <1>8, <2>2
  <2>3. CASE (c \in left /\ d \in left) \/ (c \in right /\ d \in right)
      BY <1>4, <2>3
  <2>4. CASE (c \in left /\ d \in right) \/ (d \in left /\ c \in right)
      BY <1>4, <1>9, <2>4
  <2>5. CASE c \in (p.clips \ {clip}) \cup {new} /\ d \in left \cup right
      BY <1>4, <1>9, <2>5
  <2>6. CASE d \in (p.clips \ {clip}) \cup {new} /\ c \in left \cup right
      BY <1>4, <1>9, <2>6
  <2>7. /\ c \in p.clips \ {clip} \/ c = new \/ c \in left \/ c \in right
        /\ d \in p.clips \ {clip} \/ d = new \/ d \in left \/ d \in right
      BY <1>6
  <2>8. CASE c = new /\ d = new
      BY <2>8
  <2> QED BY <2>1, <2>2, <2>3, <2>4, <2>5, <2>6, <2>7, <2>8
<1>11. Apart(q)
    BY <1>7, <1>10 DEF Apart
<1>12. new = ClipOf(q, id)
    BY <1>2, <1>6, <1>10 DEF ClipOf
<1>13. \A c \in q.clips : c \in p.clips \/ Copies(c, clip) \/ c = new
    BY <1>4, <1>6
<1>14. \A c \in p.clips : c \in q.clips \/ c = clip
    BY <1>6
<1> QED BY <1>7, <1>11, <1>12, <1>13, <1>14 DEF clip

\* Clips that are cut or moved keep their ids.
LEMMA TimelineApart ==
    ASSUME NEW p, Sound(p), Apart(p)
    PROVE  /\ \A duration : \A q \in set_duration(p, duration) : Apart(q)
           /\ \A bpm : \A q \in set_tempo(p, bpm) : Apart(q)
<1>1. \A c \in p.clips : Has(c, ClipParts)
    BY BelowNext
<1>2. ASSUME NEW duration, NEW q \in set_duration(p, duration) PROVE Apart(q)
  <2> DEFINE cut(c) == [c EXCEPT !.end = Smaller(@, duration)]
             clips == CutAt(p.clips, duration)
             edits == CutAt(p.edits, duration)
             ok == Leq(MinimumDuration, duration) /\ Leq(duration, MaximumDuration)
  <2>1. q \in Given(ok, [p EXCEPT !.duration = duration, !.clips = clips, !.edits = edits])
      BY DEF set_duration
  <2>2. \A c \in clips : \E x \in p.clips : c = cut(x) /\ c.id = x.id
    <3>1. \A x \in p.clips : cut(x).id = x.id
        BY <1>1 DEF Has, ClipParts
    <3>2. \A c \in clips : \E x \in p.clips : c = cut(x)
        BY DEF CutAt
    <3> HIDE DEF cut, clips
    <3> QED BY <3>1, <3>2
  <2> HIDE DEF clips, edits, ok
  <2>3. q.clips = clips /\ q.key_zones = p.key_zones
      BY <2>1 DEF Given, Sound, IsProject, Has, Parts
  <2> HIDE DEF cut
  <2> QED BY <2>2, <2>3 DEF Apart
<1>3. ASSUME NEW bpm, NEW q \in set_tempo(p, bpm) PROVE Apart(q)
  <2> DEFINE scale == Ratio(p.bpm, bpm)
             required == Times(LatestEnd(p.clips \cup p.edits), scale)
             duration == Larger(p.duration, required)
             edits == Rescaled(p.edits, scale)
             scaled(c) == [c EXCEPT !.start = Times(@, scale), !.end = Times(@, scale)]
             moved(c) == [c EXCEPT !.source_start = Times(@, scale)]
             clips == {moved(c) : c \in Rescaled(p.clips, scale)}
             ok == bpm \in 60..180 /\ Leq(required, MaximumDuration)
  <2>1. q \in Given(ok, [p EXCEPT !.bpm = bpm, !.duration = duration, !.edits = edits,
                                  !.clips = clips])
      BY DEF set_tempo
  <2> HIDE DEF scale
  <2>2. \A x \in p.clips : moved(scaled(x)).id = x.id
      BY <1>1 DEF Has, ClipParts
  <2>3. \A c \in clips : \E x \in p.clips : c = moved(scaled(x))
      BY DEF Rescaled
  <2> HIDE DEF clips, edits, ok, duration, required
  <2>4. q.clips = clips /\ q.key_zones = p.key_zones
      BY <2>1 DEF Given, Sound, IsProject, Has, Parts
  <2> HIDE DEF moved, scaled
  <2> QED BY <2>2, <2>3, <2>4 DEF Apart
<1> QED BY <1>2, <1>3

\* A new project, and what a commit makes of one.
LEMMA ReplacedApart ==
    ASSUME NEW p, NEW q
    PROVE  /\ q \in reset(p) => Apart(q)
           /\ \A g, newest : Apart(g) /\ Commits(p, g, q, newest) => Apart(q)
<1>1. ASSUME q \in reset(p) PROVE Apart(q)
  <2>1. q.clips = {} /\ q.key_zones = {}
      BY <1>1 DEF reset, Given, InitialProject
  <2> QED BY <2>1 DEF Apart
<1>2. ASSUME NEW g, NEW newest, Apart(g), Commits(p, g, q, newest) PROVE Apart(q)
  <2>1. q.clips = g.clips /\ q.key_zones = g.key_zones
      BY <1>2 DEF Commits, Parts
  <2> QED BY <1>2, <2>1 DEF Apart
<1> QED BY <1>1, <1>2
=============================================================================
