----------------------------- MODULE ScrapeAPI -----------------------------
(* The catalogue's functions of FANZA, whose pages redirect to an API, of  *)
(* ThePornDB and of AV-LEAGUE. *)
EXTENDS ScrapeSteps, Sequences

(* fanza.go: the first preview is the big thumb if the two images match *)
BigThumbFromPreviews == <<Unless("BigThumb", <<If("Thumb", <<If("Previews", <<
  Visit("similar images", "ignore", <<CopyFirst("BigThumb", "Previews"), DropFirst("Previews")>>)>>)>>)>>)>>

FANZADigital == <<Given("Homepage", "url"), Visit("api", "keep", <<Decode("content", <<
  Set("ID", "ID"), Set("Number", "MakerContentID"), Set("Title", "Title"), Set("Summary", "Description"),
  Set("Thumb", "MediumURL"), Set("Cover", "LargeURL"), Set("Details", "Maker"), Set("Score", "Average"),
  Set("Date", "DeliveryStartDate"),
  On("director", <<Set("Director", "Name")>>),
  On("actress", <<Add("Actors", "Name")>>),
  IfText("AmateurActress", <<AddFirst("Actors", "AmateurActress")>>),
  On("content genre", <<Add("Genres", "Name")>>),
  On("sample image", <<Add("Previews", "LargeImageURL")>>),
  CopyDefault("Number", "ID"),
  Default("Date", "MakerReleasedAt"),
  CopyDefault("Cover", "Thumb"),
  Visit("thumb image", "ignore", <<When("big thumb", <<Copy("BigThumb", "Thumb")>>)>>)
  >> \o BigThumbFromPreviews \o <<Text("Video", "Sample2DMovie"), Text("Video", "SampleVRMovie")>>)>>)>>

(* the player's page may hold another one in a frame *)
FANZAPlayer == <<Clear("Video"), Visit("player", "ignore", <<
  On("iframe", <<Clear("Video"), Visit("frame", "ignore", <<On("frame args", <<Text("Video", "src")>>)>>)>>),
  On("player args", <<Text("Video", "src")>>)>>)>>

FANZAVRPlayer == <<Clear("Video"), Visit("vr player", "ignore", <<On("sampleUrl", <<Set("Video", "")>>)>>)>>

PlayerVideo == <<Clear("Video"), Visit("player", "ignore", <<Given("Video", "player")>>)>>
VRVideo == <<Clear("Video"), Visit("vr player", "ignore", <<Given("Video", "vr player")>>)>>

FANZAMono == <<Given("Homepage", "url"), Visit("mono", "keep", <<
  On("title", <<Set("Title", "")>>),
  On("package-src", <<SetURL("Thumb", "src")>>),
  On("package", <<SetURL("Cover", "href")>>),
  On("row id", <<Set("ID", ""), Copy("Number", "ID")>>),
  On("row", <<Set("Details", "")>>),
  On("row genres", <<Set("Genres", "")>>),
  On("row actors", <<Set("Actors", "")>>),
  On("row score", <<Set("Score", "src")>>),
  On("row date", <<Default("Date", "")>>),
  On("performer", <<AddText("Actors", "")>>),
  On("ld+json", <<Text("ID", "sku"), Copy("Number", "ID"), Text("Title", "name"), Text("Summary", "description"),
                  Text("Thumb", "image"), DefaultURL("Thumb", "image"), Text("Genres", "genre"),
                  Text("Score", "ratingValue"), Text("Video", "contentUrl")>>),
  Else("og:title", <<Default("Title", "content")>>),
  Else("mg-b20 lh4", <<Default("Summary", "mg-b20"), Default("Summary", "p"), Default("Summary", "")>>),
  Else("og:description", <<Default("Summary", "content")>>),
  Else("sample-video img", <<Unless("Thumb", <<IfText("package id", <<SetURL("Thumb", "src")>>)>>)>>),
  Else("package-image", <<Unless("Cover", <<IfText("jpg", <<SetURL("Cover", "jpg")>>)>>)>>),
  Else("og:image", <<DefaultURL("Thumb", "content")>>),
  On("detail-sample-movie", PlayerVideo),
  On("detail-sample-vr-movie", VRVideo),
  When("autoPlayerFloor", <<When("autoPlayerMovieFlg", PlayerVideo), WhenNot("autoPlayerMovieFlg", VRVideo)>>),
  On("sample-image", <<AddURL("Previews", "img")>>),
  Else("sample-image-block", <<If("Previews", <<AddURL("Previews", "img")>>)>>),
  CopyDefault("Cover", "Thumb")
  >> \o BigThumbFromPreviews \o <<
  When("a_performer", <<Visit("ajax", "ignore", <<On("ajax root", <<Text("Actors", "actors")>>)>>)>>),
  Incomplete(<<When("region page", <<Fail>>)>>)>>),
  IfRefused(<<When("redirect to video", <<Handled>> \o FANZADigital)>>)>>

(* a number with a hyphen is searched twice, the second time as a fallback *)
FANZASearch == <<
  When("hyphen", <<
    Visit("search 00", "keep", <<>>),
    IfOK(<<Decode("results 00", <<On("product 00", <<IfText("DetailURL", <<Add("Results", "ContentID")>>)>>)>>)>>),
    IfOK(<<If("Results", <<Return>>)>>),
    Handled, Clear("Results")>>),
  Visit("search", "stop", <<>>),
  Decode("results", <<On("product", <<IfText("DetailURL", <<Add("Results", "ContentID")>>)>>)>>)>>

FANZADigitalReviews == <<Visit("api", "keep", <<Decode("reviews", <<On("review item", <<Add("Reviews", "")>>)>>)>>)>>

FANZAMonoReviews == <<
  Visit("mono reviews", "assign", <<On("review", <<IfText("reviewer", <<AddText("Reviews", "")>>)>>)>>),
  IfRefused(<<When("redirect to video", <<Handled>> \o FANZADigitalReviews)>>)>>

(* theporndb: nothing, and no error, without a token *)
ThePornDBActor == <<When("token", <<Visit("actor", "assign", <<Decode("actor json", <<
  Set("ID", "Slug"), Set("Name", "Name"), Set("Summary", "Bio"), Set("Details", "Extras"), Set("Aliases", "Aliases"),
  AddText("Images", "Image"), AddText("Images", "Thumbnail"), AddText("Images", "Face"),
  On("poster", <<Add("Images", "URL")>>)>>)>>)>>)>>

ThePornDBActorSearch == <<When("token", <<Visit("actors", "assign", <<Decode("actors json", <<
  On("actor", <<Add("Results", "Slug")>>)>>)>>)>>)>>

ThePornDBMovie == <<When("token", <<Visit("video", "assign", <<Decode("video json", <<
  Set("ID", "Slug"), Copy("Number", "ID"), Set("Title", "Title"), Set("Summary", "Description"), Set("Thumb", "Poster"),
  Set("Cover", "Image"), Set("Score", "Rating"), Set("Video", "Trailer"), Set("Details", "Site"), Text("Date", "ReleaseDate"),
  On("tag", <<Add("Genres", "Name")>>),
  On("performer", <<Add("Actors", "Name")>>),
  Text("Director", "Directors")>>)>>)>>)>>

ThePornDBSearch == <<When("token", <<Visit("videos", "assign", <<Decode("videos json", <<
  On("video", <<Add("Results", "Slug")>>)>>)>>)>>)>>

(* av-league.go *)
AVLeagueActor == <<Given("ID", "url"), Visit("actor", "assign", <<
  On("pan", <<Set("Name", "")>>),
  On("j-prof", <<IfText("aliases", <<Add("Aliases", "aliases")>>)>>),
  On("i-pic-box", <<AddURL("Images", "src")>>),
  Else("og:image", <<IfText("content", <<AddFirst("Images", "content")>>)>>),
  On("row", <<IfText("td", <<Set("Details", "td")>>)>>)>>)>>

AVLeagueSearch == <<Visit("search", "assign", <<On("contents", <<AddURL("Results", "href")>>)>>)>>
=============================================================================
