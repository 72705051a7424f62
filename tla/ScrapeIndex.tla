---------------------------- MODULE ScrapeIndex ----------------------------
(* The catalogue's functions of the sites that index movies of many makers. *)
EXTENDS ScrapeSteps, Sequences

(* javbus.go *)
JavBusMovie == <<Given("ID", "url"), VisitAny("movie", "assign", <<
  On("bigImage", <<Set("Title", "title"), SetURL("Cover", "src")>>),
  On("row number", <<Set("Number", "span")>>),
  On("row", <<Set("Details", "")>>),
  On("genre", <<AddText("Genres", "a")>>),
  On("sample-waterfall", <<AddURL("Previews", "href")>>),
  On("star-name", <<Add("Actors", "title")>>),
  If("Cover", <<When("cover path", <<
    Go(<<Visit("thumb", "ignore", <<Given("Thumb", "thumb")>>)>>),
    Go(<<Visit("thumbs", "ignore", <<Given("Thumb", "thumbs")>>)>>),
    Wait>>)>>)>>)>>

JavBusSearch == <<
  Go(<<VisitAny("search", "ignore", <<On("movie-box", <<Add("Results", "href")>>)>>)>>),
  Go(<<VisitAny("uncensored", "ignore", <<On("uncensored movie-box", <<Add("Results", "href")>>)>>)>>),
  Wait>>

(* JAV321Movie whose fallback for the title does not look at the title.    *)
JAV321MovieFallbackFirst == <<Given("ID", "url"), Visit("video", "assign", <<
  On("h3", <<Set("Title", "")>>),
  Else("panel-heading h3", <<Text("Title", "")>>),
  On("summary", <<Default("Summary", "")>>),
  Else("panel-body text", <<Default("Summary", "")>>),
  On("panel-body img", <<Text("Thumb", "src")>>),
  On("img-responsive", <<Overflow("Cover", "Previews")>>),
  On("thumbnail star", <<AddText("Actors", "")>>),
  On("row number", <<Set("Number", "")>>),
  On("row date", <<Set("Date", "")>>),
  On("row", <<Set("Details", "")>>),
  On("row genre", <<Add("Genres", "")>>),
  Else("row star", <<AddFirst("Actors", "")>>),
  Else("row actor", <<IfText("", <<AddFirst("Actors", "")>>)>>),
  On("score image", <<Text("Score", "")>>),
  Else("score", <<Default("Score", "")>>),
  On("video source", <<Text("Video", "")>>)>>)>>

(* jav321.go: one answer to a search is the page it redirects to *)
JAV321Movie == <<Given("ID", "url"), Visit("video", "assign", <<
  On("h3", <<Set("Title", "")>>),
  Else("panel-heading h3", <<Default("Title", "")>>),
  On("summary", <<Default("Summary", "")>>),
  Else("panel-body text", <<Default("Summary", "")>>),
  On("panel-body img", <<Text("Thumb", "src")>>),
  On("img-responsive", <<Overflow("Cover", "Previews")>>),
  On("thumbnail star", <<AddText("Actors", "")>>),
  On("row number", <<Set("Number", "")>>),
  On("row date", <<Set("Date", "")>>),
  On("row", <<Set("Details", "")>>),
  On("row genre", <<Add("Genres", "")>>),
  Else("row star", <<AddFirst("Actors", "")>>),
  Else("row actor", <<IfText("", <<AddFirst("Actors", "")>>)>>),
  On("score image", <<Text("Score", "")>>),
  Else("score", <<Default("Score", "")>>),
  On("video source", <<Text("Video", "")>>)>>)>>

JAV321Search == <<VisitAny("search", "keep", <<
  When("Location of a video", JAV321Movie \o <<IfOK(<<Given("Results", "info")>>)>>)>>)>>

(* DUGAMovie that completes the number before the id.                      *)
DUGAMovieNumberFirst == <<Given("ID", "url"), Visit("ppv", "assign", <<
  On("contentsname", <<Set("Title", "")>>),
  On("ld+json", <<Set("Summary", "description")>>),
  On("productjpg", <<SetURL("Thumb", "src")>>),
  On("imagebox", <<SetURL("Cover", "href")>>),
  On("row date", <<Default("Date", "")>>),
  On("row id", <<Set("ID", "")>>),
  On("row number", <<Set("Number", "")>>),
  On("row", <<Set("Details", "")>>),
  On("director", <<Default("Director", "")>>),
  On("performer", <<Add("Actors", "")>>),
  On("category", <<Add("Genres", "")>>),
  Else("og:title", <<Default("Title", "content")>>),
  Else("og:description", <<Default("Summary", "content")>>),
  Else("og:image", <<DefaultURL("Thumb", "content")>>),
  On("play-video", <<SetURL("Video", "src")>>),
  On("digestthumbbox", <<AddURL("Previews", "href")>>),
  CopyDefault("Cover", "Thumb"),
  CopyDefault("Number", "ID"),
  Unless("ID", <<Given("ID", "url")>>)>>)>>

(* duga.go *)
DUGAMovie == <<Given("ID", "url"), Visit("ppv", "assign", <<
  On("contentsname", <<Set("Title", "")>>),
  On("ld+json", <<Set("Summary", "description")>>),
  On("productjpg", <<SetURL("Thumb", "src")>>),
  On("imagebox", <<SetURL("Cover", "href")>>),
  On("row date", <<Default("Date", "")>>),
  On("row id", <<Set("ID", "")>>),
  On("row number", <<Set("Number", "")>>),
  On("row", <<Set("Details", "")>>),
  On("director", <<Default("Director", "")>>),
  On("performer", <<Add("Actors", "")>>),
  On("category", <<Add("Genres", "")>>),
  Else("og:title", <<Default("Title", "content")>>),
  Else("og:description", <<Default("Summary", "content")>>),
  Else("og:image", <<DefaultURL("Thumb", "content")>>),
  On("play-video", <<SetURL("Video", "src")>>),
  On("digestthumbbox", <<AddURL("Previews", "href")>>),
  CopyDefault("Cover", "Thumb"),
  Unless("ID", <<Given("ID", "url")>>),
  CopyDefault("Number", "ID")>>)>>

(* DUGASearch without the wait for the movies it looks up.                 *)
DUGASearchNoWait == <<Visit("search", "assign", <<
  On("contentslist", <<AddURL("Ids", "href")>>),
  ForEach("Ids", "three", <<Go(<<Visit("movie", "ignore", <<Add("Results", "")>>)>>)>>)>>)>>

DUGASearch == <<Visit("search", "assign", <<
  On("contentslist", <<AddURL("Ids", "href")>>),
  ForEach("Ids", "three", <<Go(<<Visit("movie", "ignore", <<Add("Results", "")>>)>>)>>),
  Wait>>)>>

(* mgstage.go *)
MGSReviews == <<Visit("movie", "assign", <<On("user_review", <<AddText("Reviews", "")>>)>>)>>

MGSMovie == <<Given("ID", "url"), Visit("movie", "assign", <<
  On("h1", <<Set("Title", "")>>),
  On("og:description", <<Set("Summary", "content")>>),
  On("h2 img", <<SetURL("Thumb", "src"), Copy("BigThumb", "Thumb")>>),
  On("EnlargeImage", <<SetURL("Cover", "href")>>),
  On("sample_movie_btn", <<Visit("sample", "ignore", <<On("sample json", <<Text("Video", "url")>>)>>)>>),
  On("sample-photo", <<Add("Previews", "href")>>),
  On("row actors", <<AddText("Actors", "")>>),
  On("row number", <<Set("Number", "")>>),
  On("row date", <<Default("Date", "")>>),
  On("row", <<Set("Details", "")>>)>>)>>

MGSSearch == <<Visit("search", "assign", <<On("product", <<AddURL("Results", "href")>>)>>)>>

(* avbase.go: the build id of the site is fetched once in two hours; the   *)
(* work it describes is looked up with the providers of its products, in   *)
(* their order, and the work's own fields supplement the answer.           *)
AVBaseBuild == <<When("fresh build", <<Given("Build", "single")>>), Unless("Build", <<
  Visit("home", "keep", <<On("__NEXT_DATA__", <<Parsed("json", <<Text("Build", "buildId")>>)>>)>>),
  Unless("Build", <<IfOK(<<Fail>>)>>)>>), IfError(<<Return>>)>>

AVBaseMovie == <<Given("Homepage", "url")>> \o AVBaseBuild \o <<Visit("work", "keep", <<Decode("work json", <<
  On("source product", <<Unless("Source", <<Visit("source", "ignore", <<Given("Source", "source")>>)>>)>>),
  If("Source", <<Given("Number", "source"), Given("Title", "source"), Given("Cover", "source"), Given("Actors", "source")>>),
  On("product", <<Unless("Source", <<Default("Title", "Title"), Default("Cover", "ImageURL"), Default("Thumb", "ThumbnailURL"),
                                     Default("Date", "Date")>>), Default("Summary", "Description")>>),
  Text("Actors", "Casts"),
  Text("Number", "WorkID"),
  Given("ID", "url"),
  If("Source", <<Text("ID", "Prefix")>>)>>)>>)>>

AVBaseSearch == AVBaseBuild \o <<Visit("works", "assign", <<
  On("work with a source", <<Add("Results", "")>>)>>)>>

(* aventertainments.go *)
AVEMovie == <<Given("ID", "url"), Visit("detail", "assign", <<
  On("section-title", <<Set("Title", "")>>),
  On("product-description", <<Add("Summary", "")>>),
  On("category", <<Add("Summary", "")>>),
  On("PlayerCover", <<SetURL("Cover", "src"), Copy("Thumb", "Cover")>>),
  Else("image_src", <<DefaultURL("Thumb", "href")>>),
  Else("grid-gallery", <<DefaultURL("Cover", "href")>>),
  On("sscontainer", <<Text("Previews", "src")>>),
  On("lightbox", <<AddText("Previews", "href")>>),
  On("player1", <<SetURL("HLS", "src")>>),
  On("row number", <<Set("Number", "")>>),
  On("row actors", <<AddText("Actors", "")>>),
  On("row date", <<NeedText(""), Set("Date", "")>>),
  On("row", <<Set("Details", "")>>)>>)>>

AVESearch == <<Visit("search", "assign", <<On("product", <<AddURL("Results", "href")>>)>>)>>

(* madouqu.go *)
MadouQuMovie == <<Given("ID", "url"), Visit("post", "assign", <<
  On("p img", <<Text("Cover", "src")>>),
  On("p number", <<Set("Number", "")>>),
  On("p title", <<Set("Title", "")>>),
  On("p actors", <<Add("Actors", "")>>),
  On("entry-tags", <<Add("Tags", "")>>),
  On("meta-category", <<Default("Details", "a")>>),
  CopyDefault("Number", "ID"),
  CopyDefault("Thumb", "Cover"),
  CopyDefault("Actors", "Tags")>>)>>

MadouQuSearch == <<Visit("search", "keep", <<On("article", <<Add("Results", "href")>>)>>)>>
=============================================================================
