--------------------------- MODULE MCVoiceCatalog ---------------------------
(* Instances of VoicePicker, and with it of VoiceCatalog, for TLC.  The Flux
   endpoint may list the default voice, twice even, a Flux voice of the same
   name that is wrongly labelled as Spanish too, and an unusable entry on either
   side of the default voice; the Aura endpoint an English and two Spanish
   voices and, wrongly, the default voice as a Spanish one, in any order and
   with repeats.  Each listing holds up to two of them: enough for a repeated id
   within a listing and across the two, for a catalog without the default
   voice, and for two voices of one language in both orders.  The other listing
   of Aura has a voice tagged in capitals.                                  *)
EXTENDS VoicePicker, TLC

BoundedListings(entries, n) == UNION {[1..k -> entries] : k \in 0..n}

Voice(id, name, tags) == [id |-> id, name |-> name, tags |-> tags]

Haley == Voice("flux-haley-en", 5, {"en", "en-US"})
Max   == Voice("flux-max-en", 5, {"en", "es"})

MCFluxListings ==
  {<<>>, <<Haley>>, <<Max>>, <<Haley, Max>>, <<Max, Haley>>, <<Haley, Haley>>,
   <<Junk, Haley>>, <<Haley, Junk>>}

MCAuraListings == BoundedListings(
  {Voice("aura-asteria-en", 1, {"en-US"}), Voice("aura-celeste-es", 3, {"es-CO"}),
   Voice("aura-estrella-es", 4, {"es"}), Voice("flux-haley-en", 5, {"es"})}, 2)

Capitals == {<<Voice("aura-angus-en", 6, {"EN-GB"})>>}

MCIds       == {"flux-haley-en", "flux-max-en", "aura-asteria-en", "aura-celeste-es",
                "aura-estrella-es", "aura-angus-en"}
MCFluxIds   == {"flux-haley-en", "flux-max-en"}
MCLanguages == {"en", "en-US", "EN-GB", "es", "es-CO", "fr"}
MCCodes     == {"en", "EN", "es", "fr"}
MCBase      == "en" :> "en" @@ "en-US" :> "en" @@ "EN-GB" :> "EN" @@ "es" :> "es"
               @@ "es-CO" :> "es" @@ "fr" :> "fr"
MCLower     == "en" :> "en" @@ "EN" :> "en" @@ "es" :> "es" @@ "fr" :> "fr"

MCIdRank ==
  "aura-angus-en" :> 1 @@ "aura-asteria-en" :> 2 @@ "aura-celeste-es" :> 3
  @@ "aura-estrella-es" :> 4 @@ "flux-haley-en" :> 5 @@ "flux-max-en" :> 6

MCCodeRank == "EN" :> 1 @@ "en" :> 2 @@ "es" :> 3 @@ "fr" :> 4
=============================================================================
