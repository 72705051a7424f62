----------------------------- MODULE MCScraping -----------------------------
(* Every function of the catalogues. *)
EXTENDS Scraping, ScrapeIndex, ScrapeStudios, ScrapeAmateur, ScrapeAPI, TLC

MCCatalogue ==
  [JavBusMovie |-> JavBusMovie, JavBusSearch |-> JavBusSearch, JAV321Movie |-> JAV321Movie, JAV321Search |-> JAV321Search,
   DUGAMovie |-> DUGAMovie, DUGASearch |-> DUGASearch, MGSReviews |-> MGSReviews, MGSMovie |-> MGSMovie, MGSSearch |-> MGSSearch,
   AVBaseMovie |-> AVBaseMovie, AVBaseSearch |-> AVBaseSearch, AVEMovie |-> AVEMovie, AVESearch |-> AVESearch,
   MadouQuMovie |-> MadouQuMovie, MadouQuSearch |-> MadouQuSearch] @@
  [DahliaMovie |-> DahliaMovie, DahliaSearch |-> DahliaSearch, HeyzoReviews |-> HeyzoReviews, HeyzoMovie |-> HeyzoMovie,
   TokyoHotMovie |-> TokyoHotMovie, TokyoHotSearch |-> TokyoHotSearch, OnePondoReviews |-> OnePondoReviews,
   OnePondoMovie |-> OnePondoMovie, HeyDougaMovie |-> HeyDougaMovie, CaribbeancomReviews |-> CaribbeancomReviews,
   CaribbeancomMovie |-> CaribbeancomMovie, SODMovie |-> SODMovie, SODSearch |-> SODSearch, KIN8Movie |-> KIN8Movie,
   H0930Movie |-> H0930Movie, GetchuMovie |-> GetchuMovie, MyWifeMovie |-> MyWifeMovie] @@
  [FC2Movie |-> FC2Movie, FC2HubMovie |-> FC2HubMovie, FC2HubSearch |-> FC2HubSearch, FC2PPVDBMovie |-> FC2PPVDBMovie,
   JAVFREEMovie |-> JAVFREEMovie, JAVFREESearch |-> JAVFREESearch, GcolleMovie |-> GcolleMovie, PcolleMovie |-> PcolleMovie] @@
  [FANZADigital |-> FANZADigital, FANZAPlayer |-> FANZAPlayer, FANZAVRPlayer |-> FANZAVRPlayer, FANZAMono |-> FANZAMono, FANZASearch |-> FANZASearch,
   FANZADigitalReviews |-> FANZADigitalReviews, FANZAMonoReviews |-> FANZAMonoReviews,
   ThePornDBActor |-> ThePornDBActor, ThePornDBActorSearch |-> ThePornDBActorSearch, ThePornDBMovie |-> ThePornDBMovie,
   ThePornDBSearch |-> ThePornDBSearch, AVLeagueActor |-> AVLeagueActor, AVLeagueSearch |-> AVLeagueSearch]

FANZACatalogue == [FANZAMono |-> FANZAMono]
=============================================================================
